---- MODULE Spec2Model ----
(***************************************************************************)
(* A model of the vertex chat server: the login path and the session       *)
(* manager, the token sweep, the community actor's fan-out, the older       *)
(* ClientServer fan-out, get_room_update and the profile-version updates.   *)
(*                                                                         *)
(* Four specifications share the variables; each leaves the variables of   *)
(* the other three at their initial values:                                *)
(*   Spec            login / session manager / token sweep / logout        *)
(*   SpecFanout      CommunityActor and ClientServer message fan-out       *)
(*   SpecRoomUpdate  RequestHandler::get_room_update                       *)
(*   SpecProfile     change_username / change_display_name                 *)
(***************************************************************************)
EXTENDS Integers, Sequences, FiniteSets, TLC

(***************************************************************************)
(* Bounds of the model.                                                    *)
(***************************************************************************)
\* the clock runs from 0 to MaxTime ticks
MaxTime == 3
\* a day is TicksPerDay ticks, so that fractions of a day exist
TicksPerDay == 2
\* token_expiry_days is drawn from 0..MaxExpiryDays
MaxExpiryDays == 1
\* number of connection attempts at /client/authenticate
MaxLogins == 2

\* number of websocket sessions of the fan-out specification
MaxEndpoints == 3
\* number of messages the actor handles
MaxMessages == 2
\* length of a list of online devices, of sessions of a user, of users of a room
MaxConnects == 2
\* the message ids Uuid::new_v4() draws from are 1..MaxUuid
MaxUuid == 3

InSeq(m, q) == \E i \in 1..Len(q) : q[i] = m

\* number of messages a room can hold
MaxRoomMessages == 3
\* message_count is drawn from 0..MaxCount
MaxCount == 3

\* number of statements run on the table users
MaxChanges == 3

\* the burst of the rate limiter, cells per minute and per device
RATELIMIT_BURST_PER_MIN == 2
\* the clock of the rate limiter runs from 0 to MaxRateTime refills
MaxRateTime == 3
\* number of requests the sessions make
MaxRequests == 4
\* number of rebuilds of the rate limiter
MaxRebuilds == 1

\* number of requests the session makes
MaxHandled == 3
\* config.max_invite_codes_per_community
max_invite_codes_per_community == 1

\* the clock of the token store runs from 0 to MaxTokenTime
MaxTokenTime == 3
\* config.token_expiry_days of the token store
TokenExpiryDays == 1

\* number of starts of the server
MaxRuns == 2

\* number of requests the client sends on the session
MaxRequestId == 3

\* number of requests handled while faults may occur
MaxFaultRequests == 3

\* number of requests of the session whose checks are followed
MaxPermRequests == 2

\* number of JoinCommunity and CreateCommunity requests handled
MaxJoinRequests == 3

\* number of CreateRoom requests handled
MaxRoomRequests == 2

\* number of requests answered by the session whose user may be gone
MaxDeletedRequests == 3

\* number of rows of the table communities
MaxCommunities == 3

\* number of CreateCommunity requests answered
MaxRegistryRequests == 3

Devices == {"d1", "d2"}
Users == {"u1", "u2"}

\* the user a device's login token was issued to (login_tokens.user_id)
DeviceUser(d) == IF d = "d1" THEN "u1" ELSE "u2"

NoDate == -1
NoSession == 0
LoginIds == 1..MaxLogins

VARIABLES
    \* ---- Spec: login, session manager, sweep
    now,                \* NOW(), in ticks
    token_expiry_days,  \* config.token_expiry_days
    login_tokens,       \* table login_tokens, keyed by device
    slots,              \* session manager: device -> slot
    sessions,           \* the ActiveSession actors, one per connection attempt
    logins,             \* the connection attempts in flight
    sweep_pc,           \* position of sweep_tokens_loop
    sweep_pending,      \* rows of the DELETE ... RETURNING not yet consumed
    sweep_deleted       \* history: the rows the running sweep's DELETE removed,
                        \* each with the session then Active for its device

sessionVars == <<now, token_expiry_days, login_tokens, slots, sessions, logins,
                 sweep_pc, sweep_pending, sweep_deleted>>

VARIABLES
    \* ---- SpecFanout: CommunityActor, ClientServer
    actor,              \* which of the two actors this run is about
    alive,              \* the websocket sessions that are open
    inbox,              \* per session, the events sent to it, in order
    handled,            \* history: the messages handled, in order
    crashed,            \* a handler of the actor has panicked
    messages,           \* table messages of the store
    online_members,     \* CommunityActor.online_members: user -> devices
    cs_sessions,        \* ClientServer.sessions (its keys)
    user_to_sessions,   \* ClientServer.user_to_sessions
    rooms,              \* ClientServer.rooms: room -> users
    session_state       \* ClientWsSession.state

fanoutVars == <<actor, alive, inbox, handled, crashed, messages, online_members,
                cs_sessions, user_to_sessions, rooms, session_state>>

VARIABLES
    \* ---- SpecRoomUpdate: get_room_update
    room_log,           \* the ids of the messages of the room, oldest first
    last_read,          \* the user's last-read message of the room
    update_request,     \* history: the arguments of the last get_room_update
    update_response     \* the response to it

updateVars == <<room_log, last_read, update_request, update_response>>

VARIABLES
    \* ---- SpecProfile: change_username, change_display_name
    users,              \* table users, keyed by id
    changes,            \* number of statements run on the table
    last_change         \* history: the last statement, its user, name, result and response

profileVars == <<users, changes, last_change>>

VARIABLES
    \* ---- SpecRate: the per-device rate limiter
    rate_clock,         \* time, in units of one refill (a minute / burst)
    rate_bucket,        \* the cells left to each device in the limiter
    rate_rebuilds,      \* number of times refresh_ratelimiter replaced the limiter
    rate_log,           \* history: the requests made, in order
    store_calls         \* number of requests that reached handle_request

rateVars == <<rate_clock, rate_bucket, rate_rebuilds, rate_log, store_calls>>

VARIABLES
    \* ---- SpecRequest: one session's requests addressed to a community
    perms,              \* the permission flags of the session's token
    user_communities,   \* the session's user in the active-user table: community -> rooms
    COMMUNITIES,        \* the registry: the communities that have an actor
    actor_mail,         \* history: what the handlers sent to community actors
    invite_codes,       \* store: number of invite codes of each community
    req_log             \* history: the requests handled and their responses

requestVars == <<perms, user_communities, COMMUNITIES, actor_mail, invite_codes, req_log>>

VARIABLES
    \* ---- SpecToken: accounts, the tokens issued to them and their use
    tk_now,             \* the clock of the store
    tk_users,           \* table users: username -> account
    tk_tokens,          \* table login_tokens: device -> row
    tk_sessions,        \* the devices that hold a live session
    tk_issued,          \* history: device -> what create_token returned for it
    tk_credentials,     \* history: username -> the password last set with success
    tk_last             \* history: the last operation and its outcome

tokenVars == <<tk_now, tk_users, tk_tokens, tk_sessions, tk_issued, tk_credentials, tk_last>>

VARIABLES
    \* ---- SpecAdmin: the starts of the server with --add-admin / --remove-admin
    adm_users,          \* table users: the usernames that exist
    administrators,     \* table administrators: username -> permission_flags or no row
    adm_runs,           \* number of starts of the server so far
    adm_last            \* history: the arguments of the last start and how it ended

adminVars == <<adm_users, administrators, adm_runs, adm_last>>

VARIABLES
    \* ---- SpecDispatch: the requests of one open session and their responses
    ds_inbox,           \* the request frames received and not yet handled
    ds_outbox,          \* the response frames written to the socket, in order
    ds_running,         \* whether the session's actor is running
    ds_handled,         \* history: the request ids handle_request was called with
    ds_next_id          \* the request id the client gives to its next request

dispatchVars == <<ds_inbox, ds_outbox, ds_running, ds_handled, ds_next_id>>

VARIABLES
    \* ---- SpecFault: requests of one session while the store or an actor fails
    ft_unread,          \* the session's cache: room -> unread
    ft_store_unread,    \* store, user_room_states: room -> unread
    ft_open,            \* whether the session is open
    ft_requests,        \* number of requests handled
    ft_last             \* history: the last request, the fault it met, its response

faultVars == <<ft_unread, ft_store_unread, ft_open, ft_requests, ft_last>>

VARIABLES
    \* ---- SpecPerms: the order of the checks of the handlers that need a flag
    pm_perms,           \* the permission flags of the session's token
    pm_bucket,          \* the rate-limit tokens left for the device
    pm_store,           \* number of writes to the store
    pm_session,         \* number of changes of the session's cached state
    pm_community,       \* number of messages sent to a community actor
    pm_handled,         \* number of requests handled
    pm_last             \* history: the last request and its response

permsVars == <<pm_perms, pm_bucket, pm_store, pm_session, pm_community, pm_handled, pm_last>>

VARIABLES
    \* ---- SpecJoin: JoinCommunity and CreateCommunity of the sessions of two users
    jn_handler,         \* the Join handler of the actor: "unimplemented" or "specified"
    jn_registry,        \* COMMUNITIES: the communities that have an actor
    jn_stopped,         \* the communities whose actor has stopped
    jn_members,         \* store, community_membership: set of <<user, community>>
    jn_cached,          \* active users' cached communities: set of <<user, community>>
    jn_status,          \* device -> state of its session in the manager
    jn_events,          \* device -> the events sent to its session
    jn_handled,         \* number of requests handled
    jn_last             \* history: the last request and its response

joinVars == <<jn_handler, jn_registry, jn_stopped, jn_members, jn_cached, jn_status, jn_events, jn_handled, jn_last>>

VARIABLES
    \* ---- SpecRoom: CreateRoom requests to one community
    rm_store,           \* store, rooms: the ids of the persisted rooms
    rm_rooms,           \* the actor's room set
    rm_online,          \* the devices of members that are online with the actor
    rm_cached,          \* active users' cached rooms: set of <<user, room>>
    rm_loaded,          \* the users whose cache holds the community
    rm_events,          \* device -> the events sent to its session
    rm_handled,         \* number of requests handled
    rm_last             \* history: the last request and its response

roomVars == <<rm_store, rm_rooms, rm_online, rm_cached, rm_loaded, rm_events, rm_handled, rm_last>>

VARIABLES
    \* ---- SpecDeleted: requests of a session whose user may be gone from the store
    ud_exists,          \* whether the session's user has a row in users
    ud_running,         \* whether the session actor is running
    ud_socket,          \* whether the session's socket is open
    ud_pc,              \* change_password: "idle", or "verified" between its two store calls
    ud_handled,         \* number of requests answered
    ud_last             \* history: the last request and its response

deletedVars == <<ud_exists, ud_running, ud_socket, ud_pc, ud_handled, ud_last>>

VARIABLES
    \* ---- SpecRegistry: the communities of the store and their actors
    rg_store,           \* store, communities: the ids of the rows
    rg_registry,        \* COMMUNITIES: the ids that have a CommunityActor
    rg_booted,          \* whether load_communities has finished
    rg_exists,          \* whether the session's user has a row in users
    rg_running,         \* whether the session actor is running
    rg_handled,         \* number of CreateCommunity requests answered
    rg_last             \* history: the last request and its response

registryVars == <<rg_store, rg_registry, rg_booted, rg_exists, rg_running, rg_handled, rg_last>>

notSessionVars == <<fanoutVars, updateVars, profileVars, rateVars, requestVars, tokenVars, adminVars, dispatchVars, faultVars, permsVars, joinVars, roomVars, deletedVars, registryVars>>
notFanoutVars == <<sessionVars, updateVars, profileVars, rateVars, requestVars, tokenVars, adminVars, dispatchVars, faultVars, permsVars, joinVars, roomVars, deletedVars, registryVars>>
notUpdateVars == <<sessionVars, fanoutVars, profileVars, rateVars, requestVars, tokenVars, adminVars, dispatchVars, faultVars, permsVars, joinVars, roomVars, deletedVars, registryVars>>
notProfileVars == <<sessionVars, fanoutVars, updateVars, rateVars, requestVars, tokenVars, adminVars, dispatchVars, faultVars, permsVars, joinVars, roomVars, deletedVars, registryVars>>
notRateVars == <<sessionVars, fanoutVars, updateVars, profileVars, requestVars, tokenVars, adminVars, dispatchVars, faultVars, permsVars, joinVars, roomVars, deletedVars, registryVars>>
notRequestVars == <<sessionVars, fanoutVars, updateVars, profileVars, rateVars, tokenVars, adminVars, dispatchVars, faultVars, permsVars, joinVars, roomVars, deletedVars, registryVars>>
notTokenVars == <<sessionVars, fanoutVars, updateVars, profileVars, rateVars, requestVars, adminVars, dispatchVars, faultVars, permsVars, joinVars, roomVars, deletedVars, registryVars>>
notAdminVars == <<sessionVars, fanoutVars, updateVars, profileVars, rateVars, requestVars, tokenVars, dispatchVars, faultVars, permsVars, joinVars, roomVars, deletedVars, registryVars>>
notDispatchVars == <<sessionVars, fanoutVars, updateVars, profileVars, rateVars, requestVars, tokenVars, adminVars, faultVars, permsVars, joinVars, roomVars, deletedVars, registryVars>>
notFaultVars == <<sessionVars, fanoutVars, updateVars, profileVars, rateVars, requestVars, tokenVars, adminVars, dispatchVars, permsVars, joinVars, roomVars, deletedVars, registryVars>>
notPermsVars == <<sessionVars, fanoutVars, updateVars, profileVars, rateVars, requestVars, tokenVars, adminVars, dispatchVars, faultVars, joinVars, roomVars, deletedVars, registryVars>>
notJoinVars == <<sessionVars, fanoutVars, updateVars, profileVars, rateVars, requestVars, tokenVars, adminVars, dispatchVars, faultVars, permsVars, roomVars, deletedVars, registryVars>>
notRoomVars == <<sessionVars, fanoutVars, updateVars, profileVars, rateVars, requestVars, tokenVars, adminVars, dispatchVars, faultVars, permsVars, joinVars, deletedVars, registryVars>>
notDeletedVars == <<sessionVars, fanoutVars, updateVars, profileVars, rateVars, requestVars, tokenVars, adminVars, dispatchVars, faultVars, permsVars, joinVars, roomVars, registryVars>>
notRegistryVars == <<sessionVars, fanoutVars, updateVars, profileVars, rateVars, requestVars, tokenVars, adminVars, dispatchVars, faultVars, permsVars, joinVars, roomVars, deletedVars>>

vars == <<sessionVars, fanoutVars, updateVars, profileVars, rateVars, requestVars, tokenVars, adminVars, dispatchVars, faultVars, permsVars, joinVars, roomVars, deletedVars, registryVars>>

(***************************************************************************)
(* login_tokens                                                            *)
(***************************************************************************)
NoToken == [present |-> FALSE, user |-> "none", last_used |-> 0, expiration_date |-> NoDate]

Token(u, used, exp) ==
    [present |-> TRUE, user |-> u, last_used |-> used, expiration_date |-> exp]

\* DATE_PART('days', NOW() - last_used): the whole days of the interval
DatePartDays(t, used) == (t - used) \div TicksPerDay

\* the WHERE clause of the sweep's DELETE
expired_tokens(tok, t, days) ==
    /\ tok.present
    /\ \/ (tok.expiration_date # NoDate /\ tok.expiration_date < t)
       \/ DatePartDays(t, tok.last_used) > days

\* Authenticator::login's freshness test (spec 3: "expiration_date passed OR
\* NOW - last_used > token_expiry_days")
TokenStale(tok, t, days) ==
    \/ (tok.expiration_date # NoDate /\ tok.expiration_date < t)
    \/ t - tok.last_used > days * TicksPerDay

(***************************************************************************)
(* The session manager (client::session::{insert, upgrade,                 *)
(* remove_and_notify}).                                                    *)
(***************************************************************************)
EmptySlot == [kind |-> "Empty", session |-> NoSession]
InsertingSlot == [kind |-> "Inserting", session |-> NoSession]
LogoutSlot == [kind |-> "Logout", session |-> NoSession]
ActiveSlot(s) == [kind |-> "Active", session |-> s]

\* insert: claims the slot if it is empty or Logout
insert(slot) ==
    IF slot.kind \in {"Empty", "Logout"}
    THEN [ok |-> TRUE, slot |-> InsertingSlot]
    ELSE [ok |-> FALSE, slot |-> slot]

\* upgrade: replaces Inserting with Active(handle)
upgrade(slot, s) ==
    IF slot.kind = "Inserting"
    THEN [ok |-> TRUE, slot |-> ActiveSlot(s)]
    ELSE [ok |-> FALSE, slot |-> slot]

\* an ActiveSession: its mailbox, whether the SessionLoggedOut event was
\* written to its socket, and the response to its last LogOut request
NoSessionRec ==
    [device |-> "none", status |-> "None", mailbox |-> <<>>, logged_out |-> FALSE,
     response |-> "none"]

NewSession(d, st) ==
    [device |-> d, status |-> st, mailbox |-> <<>>, logged_out |-> FALSE,
     response |-> "none"]

\* do_send to a session's address: dropped when the actor has stopped
Deliver(ss, s, m) ==
    IF ss[s].status = "Running"
    THEN [ss EXCEPT ![s].mailbox = Append(@, m)]
    ELSE ss

\* remove_and_notify: the slot becomes Logout, an Active handle is sent
\* SessionLoggedOut and dropped
remove_and_notify_slots(sl, d) == [sl EXCEPT ![d] = LogoutSlot]

remove_and_notify_sessions(sl, ss, d) ==
    IF sl[d].kind = "Active"
    THEN Deliver(ss, sl[d].session, "SessionLoggedOut")
    ELSE ss

\* a stopping session drops itself from the manager
drop_session(sl, s, d) ==
    IF sl[d] = ActiveSlot(s) THEN [sl EXCEPT ![d] = EmptySlot] ELSE sl

(***************************************************************************)
(* Initial state of Spec: the database holds a token for every device,     *)
(* one without and one with an expiration_date.                            *)
(***************************************************************************)
\* a connection attempt: its position in login, its device, the slot that
\* insert found (history), whether remove_and_notify took the slot it had
\* claimed before its socket upgraded (history), and the reply
IdleLogin ==
    [pc |-> "idle", device |-> "none", found |-> "none", removed |-> FALSE,
     result |-> "none"]

SessionInit ==
    /\ now = 0
    /\ token_expiry_days \in 0..MaxExpiryDays
    /\ login_tokens = [d \in Devices |->
          Token(DeviceUser(d), 0, IF d = "d1" THEN NoDate ELSE 1)]
    /\ slots = [d \in Devices |-> EmptySlot]
    /\ sessions = [s \in LoginIds |-> NoSessionRec]
    /\ logins = [l \in LoginIds |-> IdleLogin]
    /\ sweep_pc = "wait"
    /\ sweep_pending = {}
    /\ sweep_deleted = {}

\* the variables of Spec at rest, for the other specifications
SessionIdle ==
    /\ now = 0
    /\ token_expiry_days = 0
    /\ login_tokens = [d \in Devices |-> NoToken]
    /\ slots = [d \in Devices |-> EmptySlot]
    /\ sessions = [s \in LoginIds |-> NoSessionRec]
    /\ logins = [l \in LoginIds |-> IdleLogin]
    /\ sweep_pc = "wait"
    /\ sweep_pending = {}
    /\ sweep_deleted = {}

(***************************************************************************)
(* Actions of Spec.                                                        *)
(***************************************************************************)
\* time passes
Tick ==
    /\ UNCHANGED notSessionVars
    /\ now < MaxTime
    /\ now' = now + 1
    /\ UNCHANGED <<token_expiry_days, login_tokens, slots, sessions, logins,
                   sweep_pc, sweep_pending, sweep_deleted>>

\* a mutant of LoginAuthenticate: an expired token authenticates
LoginAuthenticateExpired(l, d, good) ==
    /\ UNCHANGED notSessionVars
    /\ logins[l].pc = "idle"
    /\ \A k \in LoginIds : k < l => logins[k].pc # "idle"
    /\ LET tok == login_tokens[d] IN
       IF ~tok.present \/ ~good
       THEN /\ logins' = [logins EXCEPT ![l] = [IdleLogin EXCEPT !.pc = "done", !.device = d, !.result = "InvalidToken"]]
            /\ UNCHANGED login_tokens
       ELSE /\ logins' = [logins EXCEPT ![l] = [IdleLogin EXCEPT !.pc = "authenticated", !.device = d]]
            /\ login_tokens' = [login_tokens EXCEPT ![d].last_used = now]
    /\ UNCHANGED <<now, token_expiry_days, slots, sessions,
                   sweep_pc, sweep_pending, sweep_deleted>>

\* login, first await: Authenticator::login(device, token)
LoginAuthenticate(l, d, good) ==
    /\ UNCHANGED notSessionVars
    /\ logins[l].pc = "idle"
    /\ \A k \in LoginIds : k < l => logins[k].pc # "idle"
    /\ LET tok == login_tokens[d] IN
       IF ~tok.present \/ ~good
       THEN /\ logins' = [logins EXCEPT ![l] = [IdleLogin EXCEPT !.pc = "done", !.device = d, !.result = "InvalidToken"]]
            /\ UNCHANGED login_tokens
       ELSE IF TokenStale(tok, now, token_expiry_days)
       THEN /\ logins' = [logins EXCEPT ![l] = [IdleLogin EXCEPT !.pc = "done", !.device = d, !.result = "TokenExpired"]]
            /\ UNCHANGED login_tokens
       ELSE /\ logins' = [logins EXCEPT ![l] = [IdleLogin EXCEPT !.pc = "authenticated", !.device = d]]
            /\ login_tokens' = [login_tokens EXCEPT ![d].last_used = now]
    /\ UNCHANGED <<now, token_expiry_days, slots, sessions,
                   sweep_pc, sweep_pending, sweep_deleted>>

\* a mutant of LoginInsert: a slot that is Inserting is claimed again
LoginInsertTwice(l) ==
    /\ UNCHANGED notSessionVars
    /\ logins[l].pc = "authenticated"
    /\ LET d == logins[l].device
           r == insert(slots[d])
           again == slots[d].kind = "Inserting"
       IN  /\ slots' = [slots EXCEPT ![d] = r.slot]
           /\ logins' = [logins EXCEPT ![l] =
                 IF r.ok \/ again THEN [@ EXCEPT !.pc = "inserted", !.found = slots[d].kind]
                 ELSE [@ EXCEPT !.pc = "done", !.found = slots[d].kind,
                                !.result = "TokenInUse"]]
    /\ UNCHANGED <<now, token_expiry_days, login_tokens, sessions,
                   sweep_pc, sweep_pending, sweep_deleted>>

\* a mutant of LoginInsert: an Active session is evicted and the slot claimed
LoginInsertEvicting(l) ==
    /\ UNCHANGED notSessionVars
    /\ logins[l].pc = "authenticated"
    /\ LET d == logins[l].device
           r == insert(slots[d])
           evict == slots[d].kind = "Active"
       IN  /\ slots' = [slots EXCEPT ![d] = IF evict THEN InsertingSlot ELSE r.slot]
           /\ sessions' = remove_and_notify_sessions(slots, sessions, d)
           /\ logins' = [logins EXCEPT ![l] =
                 IF r.ok \/ evict THEN [@ EXCEPT !.pc = "inserted", !.found = slots[d].kind]
                 ELSE [@ EXCEPT !.pc = "done", !.found = slots[d].kind,
                                !.result = "TokenInUse"]]
    /\ UNCHANGED <<now, token_expiry_days, login_tokens,
                   sweep_pc, sweep_pending, sweep_deleted>>

\* login, second await: session::insert, and the match on its result
LoginInsert(l) ==
    /\ UNCHANGED notSessionVars
    /\ logins[l].pc = "authenticated"
    /\ LET d == logins[l].device
           r == insert(slots[d])
       IN  /\ slots' = [slots EXCEPT ![d] = r.slot]
           /\ logins' = [logins EXCEPT ![l] =
                 IF r.ok THEN [@ EXCEPT !.pc = "inserted", !.found = slots[d].kind]
                 ELSE [@ EXCEPT !.pc = "done", !.found = slots[d].kind,
                                !.result = "TokenInUse"]]
    /\ UNCHANGED <<now, token_expiry_days, login_tokens, sessions,
                   sweep_pc, sweep_pending, sweep_deleted>>

\* a mutant of LoginUpgrade: the session runs although upgrade refused it
LoginUpgradeAnyway(l) ==
    /\ UNCHANGED notSessionVars
    /\ logins[l].pc = "inserted"
    /\ LET d == logins[l].device
           r == upgrade(slots[d], l)
       IN  /\ slots' = [slots EXCEPT ![d] = r.slot]
           /\ sessions' = [sessions EXCEPT ![l] = NewSession(d, "Running")]
           /\ logins' = [logins EXCEPT ![l] = [@ EXCEPT !.pc = "done", !.result = "Upgraded"]]
    /\ UNCHANGED <<now, token_expiry_days, login_tokens,
                   sweep_pc, sweep_pending, sweep_deleted>>

\* the on_upgrade callback: ActiveSession::new, then session::upgrade, whose
\* failure is ignored (the session does not spawn and the socket is dropped)
LoginUpgrade(l) ==
    /\ UNCHANGED notSessionVars
    /\ logins[l].pc = "inserted"
    /\ LET d == logins[l].device
           r == upgrade(slots[d], l)
       IN  /\ slots' = [slots EXCEPT ![d] = r.slot]
           /\ sessions' = [sessions EXCEPT ![l] =
                 NewSession(d, IF r.ok THEN "Running" ELSE "Closed")]
           /\ logins' = [logins EXCEPT ![l] =
                 [@ EXCEPT !.pc = "done", !.result = IF r.ok THEN "Upgraded" ELSE "Dropped"]]
    /\ UNCHANGED <<now, token_expiry_days, login_tokens,
                   sweep_pc, sweep_pending, sweep_deleted>>

\* sweep_tokens_loop, after timer.tick(): the DELETE ... RETURNING of
\* expired_tokens runs as one statement
SweepDelete ==
    /\ UNCHANGED notSessionVars
    /\ sweep_pc = "wait"
    /\ LET gone == {d \in Devices : expired_tokens(login_tokens[d], now, token_expiry_days)} IN
       /\ login_tokens' = [d \in Devices |-> IF d \in gone THEN NoToken ELSE login_tokens[d]]
       /\ sweep_pending' = gone
       /\ sweep_deleted' = {[device |-> d, token |-> login_tokens[d],
                              session |-> slots[d].session] : d \in gone}
    /\ sweep_pc' = "notify"
    /\ UNCHANGED <<now, token_expiry_days, slots, sessions, logins>>

\* a mutant of SweepNotify: the slot is replaced but its session is told
\* nothing
SweepNotifySilent(d) ==
    /\ UNCHANGED notSessionVars
    /\ sweep_pc = "notify"
    /\ d \in sweep_pending
    /\ sweep_pending' = sweep_pending \ {d}
    /\ slots' = remove_and_notify_slots(slots, d)
    /\ logins' = [l \in LoginIds |->
          IF logins[l].pc = "inserted" /\ logins[l].device = d
          THEN [logins[l] EXCEPT !.removed = TRUE]
          ELSE logins[l]]
    /\ UNCHANGED <<now, token_expiry_days, login_tokens, sessions,
                   sweep_pc, sweep_deleted>>

\* sweep_tokens_loop, try_for_each: remove_and_notify(user, device) for one
\* returned row
SweepNotify(d) ==
    /\ UNCHANGED notSessionVars
    /\ sweep_pc = "notify"
    /\ d \in sweep_pending
    /\ sweep_pending' = sweep_pending \ {d}
    /\ slots' = remove_and_notify_slots(slots, d)
    /\ sessions' = remove_and_notify_sessions(slots, sessions, d)
    /\ logins' = [l \in LoginIds |->
          IF logins[l].pc = "inserted" /\ logins[l].device = d
          THEN [logins[l] EXCEPT !.removed = TRUE]
          ELSE logins[l]]
    /\ UNCHANGED <<now, token_expiry_days, login_tokens,
                   sweep_pc, sweep_deleted>>

\* sweep_tokens_loop: the stream is exhausted, back to timer.tick()
SweepFinish ==
    /\ UNCHANGED notSessionVars
    /\ sweep_pc = "notify"
    /\ sweep_pending = {}
    /\ sweep_pc' = "wait"
    /\ sweep_deleted' = {}
    /\ UNCHANGED <<now, token_expiry_days, login_tokens, slots, sessions, logins,
                   sweep_pending>>

\* a mutant of LogOut: the session is told to close whatever revoke_token
\* returned
LogOutAlways(s) ==
    /\ UNCHANGED notSessionVars
    /\ sessions[s].status = "Running"
    /\ sessions[s].mailbox = <<>>
    /\ LET d == sessions[s].device IN
       /\ login_tokens' = [login_tokens EXCEPT ![d] = NoToken]
       /\ sessions' = [sessions EXCEPT
              ![s].mailbox = Append(@, "LogoutThisSession"),
              ![s].response = IF login_tokens[d].present THEN "NoData"
                              ELSE "DeviceDoesNotExist"]
    /\ UNCHANGED <<now, token_expiry_days, slots, logins,
                   sweep_pc, sweep_pending, sweep_deleted>>

\* RequestHandler::log_out: revoke_token(device); Err(NonexistentDevice) is
\* answered DeviceDoesNotExist, otherwise
\* notify_immediately(LogoutThisSession) and NoData
LogOut(s) ==
    /\ UNCHANGED notSessionVars
    /\ sessions[s].status = "Running"
    /\ sessions[s].mailbox = <<>>
    /\ LET d == sessions[s].device IN
       IF login_tokens[d].present
       THEN /\ login_tokens' = [login_tokens EXCEPT ![d] = NoToken]
            /\ sessions' = [sessions EXCEPT
                   ![s].mailbox = Append(@, "LogoutThisSession"),
                   ![s].response = "NoData"]
       ELSE /\ sessions' = [sessions EXCEPT ![s].response = "DeviceDoesNotExist"]
            /\ UNCHANGED login_tokens
    /\ UNCHANGED <<now, token_expiry_days, slots, logins,
                   sweep_pc, sweep_pending, sweep_deleted>>

\* the session handles the head of its mailbox: SessionLoggedOut is written
\* to the socket before it closes; LogoutThisSession closes the sink; a
\* stopped session drops itself from the manager
SessionHandle(s) ==
    /\ UNCHANGED notSessionVars
    /\ sessions[s].status = "Running"
    /\ sessions[s].mailbox # <<>>
    /\ LET m == Head(sessions[s].mailbox) IN
       sessions' = [sessions EXCEPT
           ![s].status = "Closed",
           ![s].mailbox = <<>>,
           ![s].logged_out = (m = "SessionLoggedOut")]
    /\ slots' = drop_session(slots, s, sessions[s].device)
    /\ UNCHANGED <<now, token_expiry_days, login_tokens, logins,
                   sweep_pc, sweep_pending, sweep_deleted>>

\* the peer closes the connection: the session actor stops
SocketClose(s) ==
    /\ UNCHANGED notSessionVars
    /\ sessions[s].status = "Running"
    /\ sessions' = [sessions EXCEPT ![s].status = "Closed", ![s].mailbox = <<>>]
    /\ slots' = drop_session(slots, s, sessions[s].device)
    /\ UNCHANGED <<now, token_expiry_days, login_tokens, logins,
                   sweep_pc, sweep_pending, sweep_deleted>>

SessionNext ==
    \/ Tick
    \/ \E l \in LoginIds, d \in Devices, good \in BOOLEAN : LoginAuthenticate(l, d, good)
    \/ \E l \in LoginIds : LoginInsert(l)
    \/ \E l \in LoginIds : LoginUpgrade(l)
    \/ SweepDelete
    \/ \E d \in Devices : SweepNotify(d)
    \/ SweepFinish
    \/ \E s \in LoginIds : LogOut(s)
    \/ \E s \in LoginIds : SessionHandle(s)
    \/ \E s \in LoginIds : SocketClose(s)

(***************************************************************************)
(* SpecFanout: the websocket sessions, the CommunityActor (community.rs)   *)
(* and the ClientServer (client/server.rs).                                *)
(***************************************************************************)
Endpoints == 1..MaxEndpoints
Uuids == 1..MaxUuid
RoomIds == {"r1"}

\* the device a session belongs to, and the user of a device
EndpointDevice(e) == CASE e % 3 = 1 -> "d1" [] e % 3 = 2 -> "d2" [] OTHER -> "d3"
EndpointUser(e) == IF EndpointDevice(e) = "d3" THEN "u2" ELSE "u1"

\* an element of OnlineMember.devices
Entry(d, e) == [device |-> d, session |-> e]

\* ServerMessage::Message(ForwardedMessage): the message (numbered in the
\* order of handling), its author and the author's device; it holds no id
ForwardedMessage(k, u, d) == [msg |-> k, author |-> u, device |-> d]

\* the sequence of n copies of x
RECURSIVE Copies(_, _)
Copies(x, n) == IF n = 0 THEN <<>> ELSE <<x>> \o Copies(x, n - 1)

\* the number of places of q that hold x
Count(q, x) == Cardinality({i \in 1..Len(q) : q[i] = x})

\* do_send that puts the event at the front of the mailbox
do_send_all_front(box, targets, ev) ==
    [e \in Endpoints |->
        IF e \in alive
        THEN Copies(ev, Count(targets, e)) \o box[e]
        ELSE box[e]]

\* addr.do_send(send) once per element of targets: a stopped session drops it
do_send_all(box, targets, ev) ==
    [e \in Endpoints |->
        IF e \in alive
        THEN box[e] \o Copies(ev, Count(targets, e))
        ELSE box[e]]

FanoutInit ==
    /\ actor \in {"community", "server"}
    /\ alive = Endpoints
    /\ inbox = [e \in Endpoints |-> <<>>]
    /\ handled = <<>>
    /\ crashed = FALSE
    /\ messages = {}
    /\ online_members = [u \in Users |-> <<>>]
    /\ cs_sessions = {}
    /\ user_to_sessions = [u \in Users |-> <<>>]
    /\ rooms = [r \in {} |-> <<>>]
    /\ session_state = [e \in Endpoints |-> "WaitingForLogin"]

\* the variables of SpecFanout at rest, for the other specifications
FanoutIdle ==
    /\ actor = "none"
    /\ alive = {}
    /\ inbox = [e \in Endpoints |-> <<>>]
    /\ handled = <<>>
    /\ crashed = FALSE
    /\ messages = {}
    /\ online_members = [u \in Users |-> <<>>]
    /\ cs_sessions = {}
    /\ user_to_sessions = [u \in Users |-> <<>>]
    /\ rooms = [r \in {} |-> <<>>]
    /\ session_state = [e \in Endpoints |-> "WaitingForLogin"]

\* the sessions that are open and registered with the actor for a device
\* other than the sender's
CaOnlineOthers(e) ==
    {x \in alive :
        /\ EndpointDevice(x) # EndpointDevice(e)
        /\ \E u \in Users : \E i \in 1..Len(online_members[u]) :
              online_members[u][i].session = x}

\* the open sessions, other than the sender, of the users of room r
CsOnlineOthers(e, r) ==
    {x \in alive \cap cs_sessions :
        /\ x # e
        /\ \E i \in 1..Len(rooms[r]) : InSeq(x, user_to_sessions[rooms[r][i]])}

\* Handler<Connect> for CommunityActor
CaConnect(e) ==
    /\ actor = "community" /\ ~crashed
    /\ e \in alive
    /\ LET u == EndpointUser(e) IN
       /\ Len(online_members[u]) < MaxConnects
       /\ online_members' = [online_members EXCEPT
             ![u] = Append(@, Entry(EndpointDevice(e), e))]
    /\ UNCHANGED <<actor, alive, inbox, handled, crashed, messages,
                   cs_sessions, user_to_sessions, rooms, session_state>>
    /\ UNCHANGED notFanoutVars

\* the sessions of all entries of online_members whose device is not from_device
RECURSIVE CaTargets(_, _, _)
CaTargets(us, members, from_device) ==
    IF us = {} THEN <<>>
    ELSE LET u == CHOOSE x \in us : TRUE
             kept == SelectSeq(members[u], LAMBDA en : en.device # from_device)
         IN  [i \in 1..Len(kept) |-> kept[i].session]
                \o CaTargets(us \ {u}, members, from_device)

\* Handler<IdentifiedMessage<ClientSentMessage>> for CommunityActor: the
\* event is sent to every listed device but the sender's, then a fresh random
\* id is returned; nothing is written to the store
CaSendMessage(e) ==
    /\ actor = "community" /\ ~crashed
    /\ e \in alive
    /\ Len(handled) < MaxMessages
    /\ LET k == Len(handled) + 1
           from_device == EndpointDevice(e)
           fwd == ForwardedMessage(k, EndpointUser(e), from_device)
       IN  /\ inbox' = do_send_all(inbox, CaTargets(Users, online_members, from_device), fwd)
           /\ \E id \in Uuids \ {handled[i].id : i \in 1..Len(handled)} :
                 handled' = Append(handled,
                     [msg |-> k, from |-> e, device |-> from_device, id |-> id,
                      expected |-> CaOnlineOthers(e)])
    /\ UNCHANGED <<actor, alive, crashed, messages, online_members,
                   cs_sessions, user_to_sessions, rooms, session_state>>
    /\ UNCHANGED notFanoutVars

\* Handler<Join> for CommunityActor: unimplemented!()
CaJoin ==
    /\ actor = "community" /\ ~crashed
    /\ crashed' = TRUE
    /\ UNCHANGED <<actor, alive, inbox, handled, messages, online_members,
                   cs_sessions, user_to_sessions, rooms, session_state>>
    /\ UNCHANGED notFanoutVars

\* a websocket closes; the CommunityActor has no handler that removes it
CaClose(e) ==
    /\ actor = "community"
    /\ e \in alive
    /\ alive' = alive \ {e}
    /\ UNCHANGED <<actor, inbox, handled, crashed, messages, online_members,
                   cs_sessions, user_to_sessions, rooms, session_state>>
    /\ UNCHANGED notFanoutVars

\* ClientMessage::Login on a session, and Handler<Connect> for ClientServer
CsConnect(e, u) ==
    /\ actor = "server" /\ ~crashed
    /\ e \in alive
    /\ Len(user_to_sessions[u]) < MaxConnects
    /\ user_to_sessions' = [user_to_sessions EXCEPT ![u] = Append(@, e)]
    /\ cs_sessions' = cs_sessions \cup {e}
    /\ session_state' = [session_state EXCEPT ![e] = u]
    /\ UNCHANGED <<actor, alive, inbox, handled, crashed, messages, online_members, rooms>>
    /\ UNCHANGED notFanoutVars

\* q without its first element equal to x
RemoveFirst(q, x) ==
    LET idx == CHOOSE i \in 1..Len(q) : q[i] = x /\ \A j \in 1..(i - 1) : q[j] # x
    IN  [i \in 1..(Len(q) - 1) |-> IF i < idx THEN q[i] ELSE q[i + 1]]

\* the session stops, and Handler<Disconnect> for ClientServer with the
\* session's id and the user it is logged in as
CsDisconnect(e) ==
    /\ actor = "server" /\ ~crashed
    /\ e \in alive
    /\ alive' = alive \ {e}
    /\ IF session_state[e] \in Users
       THEN user_to_sessions' = [user_to_sessions EXCEPT
                ![session_state[e]] = RemoveFirst(@, e)]
       ELSE UNCHANGED user_to_sessions
    /\ cs_sessions' = cs_sessions \ {e}
    /\ UNCHANGED <<actor, inbox, handled, crashed, messages, online_members,
                   rooms, session_state>>
    /\ UNCHANGED notFanoutVars

\* Handler<IdentifiedMessage<CreateRoom>> for ClientServer
CsCreateRoom(e, r) ==
    /\ actor = "server" /\ ~crashed
    /\ e \in alive /\ session_state[e] \in Users
    /\ r \notin DOMAIN rooms
    /\ rooms' = [x \in DOMAIN rooms \cup {r} |->
                    IF x = r THEN <<session_state[e]>> ELSE rooms[x]]
    /\ UNCHANGED <<actor, alive, inbox, handled, crashed, messages, online_members,
                   cs_sessions, user_to_sessions, session_state>>
    /\ UNCHANGED notFanoutVars

\* Handler<IdentifiedMessage<Join>> for ClientServer: unwrap on the room
CsJoin(e, r) ==
    /\ actor = "server" /\ ~crashed
    /\ e \in alive /\ session_state[e] \in Users
    /\ IF r \in DOMAIN rooms
       THEN /\ Len(rooms[r]) < MaxConnects
            /\ rooms' = [rooms EXCEPT ![r] = Append(@, session_state[e])]
            /\ UNCHANGED crashed
       ELSE /\ crashed' = TRUE
            /\ UNCHANGED rooms
    /\ UNCHANGED <<actor, alive, inbox, handled, messages, online_members,
                   cs_sessions, user_to_sessions, session_state>>
    /\ UNCHANGED notFanoutVars

\* send_to_room: the sessions, other than the sender, of the users of the room
RECURSIVE CsTargets(_, _, _)
CsTargets(us, u2s, sender) ==
    IF us = <<>> THEN <<>>
    ELSE SelectSeq(u2s[Head(us)], LAMBDA id : id # sender)
            \o CsTargets(Tail(us), u2s, sender)

\* send_to_room: the targets reached before self.sessions.get_mut(id).unwrap()
\* meets an id that is not in sessions
RECURSIVE Unwrapped(_, _)
Unwrapped(t, ss) ==
    IF t = <<>> \/ Head(t) \notin ss THEN <<>>
    ELSE <<Head(t)>> \o Unwrapped(Tail(t), ss)

\* Handler<IdentifiedMessage<ClientSentMessage>> for ClientServer:
\* send_to_room(to_room, Message(fwd), session_id)
CsSendMessage(e, r) ==
    /\ actor = "server" /\ ~crashed
    /\ e \in alive /\ session_state[e] \in Users
    /\ Len(handled) < MaxMessages
    /\ IF r \notin DOMAIN rooms
       THEN /\ crashed' = TRUE
            /\ UNCHANGED <<inbox, handled>>
       ELSE LET k == Len(handled) + 1
                fwd == ForwardedMessage(k, session_state[e], EndpointDevice(e))
                targets == CsTargets(rooms[r], user_to_sessions, e)
                reached == Unwrapped(targets, cs_sessions)
            IN  /\ inbox' = do_send_all(inbox, reached, fwd)
                /\ crashed' = (Len(reached) < Len(targets))
                /\ handled' = Append(handled,
                      [msg |-> k, from |-> e, device |-> EndpointDevice(e), id |-> 0,
                       expected |-> CsOnlineOthers(e, r)])
    /\ UNCHANGED <<actor, alive, messages, online_members,
                   cs_sessions, user_to_sessions, rooms, session_state>>
    /\ UNCHANGED notFanoutVars

FanoutNext ==
    \/ \E e \in Endpoints : CaConnect(e)
    \/ \E e \in Endpoints : CaSendMessage(e)
    \/ CaJoin
    \/ \E e \in Endpoints : CaClose(e)
    \/ \E e \in Endpoints, u \in Users : CsConnect(e, u)
    \/ \E e \in Endpoints : CsDisconnect(e)
    \/ \E e \in Endpoints, r \in RoomIds : CsCreateRoom(e, r)
    \/ \E e \in Endpoints, r \in RoomIds : CsJoin(e, r)
    \/ \E e \in Endpoints, r \in RoomIds : CsSendMessage(e, r)

(***************************************************************************)
(* SpecRoomUpdate: RequestHandler::get_room_update over the messages of    *)
(* one room.                                                               *)
(***************************************************************************)
\* Option<MessageId>::None; the ids of messages start at 1
NoMessage == 0

Min(a, b) == IF a < b THEN a ELSE b

Reverse(q) == [i \in 1..Len(q) |-> q[Len(q) + 1 - i]]

\* the place of id in the room's messages, 0 when it is absent
Position(log, id) ==
    IF InSeq(id, log) THEN CHOOSE i \in 1..Len(log) : log[i] = id ELSE 0

After(bound) == [kind |-> "After", bound |-> bound]
Before(bound) == [kind |-> "Before", bound |-> bound]
Exclusive(id) == [inclusive |-> FALSE, id |-> id]
Inclusive(id) == [inclusive |-> TRUE, id |-> id]
NoSelector == [kind |-> "None"]

\* Database::get_messages: at most count messages next to the reference
\* message, newest first; an error when the reference message is absent
get_messages(log, selector, count) ==
    LET at == Position(log, selector.bound.id)
        keep == IF selector.bound.inclusive THEN 0 ELSE 1
        older == SubSeq(log, 1, IF selector.kind = "Before" THEN at - keep ELSE 0)
        newer == SubSeq(log, IF selector.kind = "After" THEN at + keep ELSE Len(log) + 1,
                        Len(log))
        found == IF selector.kind = "Before"
                 THEN SubSeq(older, Len(older) - Min(count, Len(older)) + 1, Len(older))
                 ELSE SubSeq(newer, 1, Min(count, Len(newer)))
    IN  IF at = 0 THEN [ok |-> FALSE, messages |-> <<>>]
        ELSE [ok |-> TRUE, messages |-> Reverse(found)]

\* Database::get_newest_message
get_newest_message(log) == IF log = <<>> THEN NoMessage ELSE log[Len(log)]

\* MessageHistory::from_newest_to_oldest: wraps the vector as it is
from_newest_to_oldest(q) == q

\* a mutant of room_update_selector: last_received itself is selected too
room_update_selector_inclusive(last_received, newest_message) ==
    IF last_received # NoMessage THEN After(Inclusive(last_received))
    ELSE IF newest_message # NoMessage THEN Before(Inclusive(newest_message))
    ELSE NoSelector

\* the selector get_room_update builds from last_received and newest_message
room_update_selector(last_received, newest_message) ==
    IF last_received # NoMessage THEN After(Exclusive(last_received))
    ELSE IF newest_message # NoMessage THEN Before(Inclusive(newest_message))
    ELSE NoSelector

\* a mutant of room_update_continuous: every batch counts as continuous
room_update_continuous_any(new_messages, message_count) == TRUE

\* a mutant of room_update_continuous: a full batch counts as continuous
room_update_continuous_full(new_messages, message_count) ==
    Len(new_messages) <= message_count

\* let continuous = new_messages.len() < message_count
room_update_continuous(new_messages, message_count) ==
    Len(new_messages) < message_count

NoRequest == [in_room |-> FALSE, last_received |-> NoMessage, message_count |-> 0]
NoResponse == [kind |-> "None"]

UpdateInit ==
    /\ room_log \in {[i \in 1..n |-> i] : n \in 0..MaxRoomMessages}
    /\ last_read \in {NoMessage} \cup {room_log[i] : i \in 1..Len(room_log)}
    /\ update_request = NoRequest
    /\ update_response = NoResponse

\* the variables of SpecRoomUpdate at rest, for the other specifications
UpdateIdle ==
    /\ room_log = <<>>
    /\ last_read = NoMessage
    /\ update_request = NoRequest
    /\ update_response = NoResponse

\* a message is added to the room
PostMessage ==
    /\ Len(room_log) < MaxRoomMessages
    /\ room_log' = Append(room_log, Len(room_log) + 1)
    /\ UNCHANGED <<last_read, update_request, update_response>>
    /\ UNCHANGED notUpdateVars

\* RequestHandler::get_room_update(community, room, last_received, message_count)
GetRoomUpdate(in_room, last_received, message_count) ==
    /\ update_request' = [in_room |-> in_room, last_received |-> last_received,
                          message_count |-> message_count]
    /\ LET selector == room_update_selector(last_received, get_newest_message(room_log))
           got == IF selector = NoSelector THEN [ok |-> TRUE, messages |-> <<>>]
                  ELSE get_messages(room_log, selector, message_count)
       IN  update_response' =
              IF ~in_room THEN [kind |-> "InvalidRoom"]
              ELSE IF ~got.ok THEN [kind |-> "InvalidMessageSelector"]
              ELSE [kind |-> "RoomUpdate",
                    last_read |-> last_read,
                    continuous |-> room_update_continuous(got.messages, message_count),
                    new_messages |-> from_newest_to_oldest(got.messages)]
    /\ UNCHANGED <<room_log, last_read>>
    /\ UNCHANGED notUpdateVars

UpdateNext ==
    \/ PostMessage
    \/ \E in_room \in BOOLEAN, last_received \in 0..(MaxRoomMessages + 1),
          message_count \in 0..MaxCount :
          GetRoomUpdate(in_room, last_received, message_count)

(***************************************************************************)
(* SpecProfile: the table users and Database::{create_user,                *)
(* change_username, change_display_name}.                                  *)
(***************************************************************************)
\* the largest value of a column of type INTEGER
IntMax == 2147483647

Names == {"ann", "bob"}

NoUser == [present |-> FALSE, username |-> "", display_name |-> "", profile_version |-> 0]

\* UserRecord::new
UserRecord(username, display_name) ==
    [present |-> TRUE, username |-> username, display_name |-> display_name,
     profile_version |-> 0]

\* the UNIQUE constraint on users.username
username_taken(table, u, name) ==
    \E x \in Users \ {u} : table[x].present /\ table[x].username = name

\* a mutant of change_display_name: profile_version is not set
change_display_name_only(table, u, new_display_name) ==
    IF ~table[u].present THEN [result |-> "NonexistentUser", table |-> table]
    ELSE [result |-> "Ok", table |-> [table EXCEPT ![u].display_name = new_display_name]]

\* Database::change_display_name: UPDATE users SET display_name = $1,
\* profile_version = profile_version + 1 WHERE id = $2; the statement fails
\* with "integer out of range" when the sum does not fit the column
change_display_name(table, u, new_display_name) ==
    IF ~table[u].present THEN [result |-> "NonexistentUser", table |-> table]
    ELSE IF table[u].profile_version = IntMax
    THEN [result |-> "DatabaseError", table |-> table]
    ELSE [result |-> "Ok",
          table |-> [table EXCEPT ![u].display_name = new_display_name,
                                  ![u].profile_version = @ + 1]]

\* a mutant of change_username: the UNIQUE constraint is not enforced
change_username_unchecked(table, u, new_username) ==
    IF ~table[u].present THEN [result |-> "NonexistentUser", table |-> table]
    ELSE IF table[u].profile_version = IntMax
    THEN [result |-> "DatabaseError", table |-> table]
    ELSE [result |-> "Ok",
          table |-> [table EXCEPT ![u].username = new_username,
                                  ![u].profile_version = @ + 1]]

\* Database::change_username: UPDATE users SET username = $1,
\* profile_version = profile_version + 1 WHERE id = $2
change_username(table, u, new_username) ==
    IF ~table[u].present THEN [result |-> "NonexistentUser", table |-> table]
    ELSE IF table[u].profile_version = IntMax
    THEN [result |-> "DatabaseError", table |-> table]
    ELSE IF username_taken(table, u, new_username)
    THEN [result |-> "UsernameConflict", table |-> table]
    ELSE [result |-> "Ok",
          table |-> [table EXCEPT ![u].username = new_username,
                                  ![u].profile_version = @ + 1]]

\* RequestHandler::change_username and change_display_name: the response to
\* the result of the store
change_response(result) ==
    CASE result = "Ok" -> "NoData"
      [] result = "UsernameConflict" -> "UsernameAlreadyExists"
      [] result = "NonexistentUser" -> "UserDeleted"
      [] OTHER -> "Internal"

NoChange ==
    [op |-> "none", user |-> "none", name |-> "none", result |-> "none",
     response |-> "none"]

ProfileInit ==
    /\ \E v \in {0, IntMax - 1} :
          users = [u \in Users |->
                      IF u = "u1" THEN [UserRecord("ann", "ann") EXCEPT !.profile_version = v]
                      ELSE NoUser]
    /\ changes = 0
    /\ last_change = NoChange

\* the variables of SpecProfile at rest, for the other specifications
ProfileIdle ==
    /\ users = [u \in Users |-> NoUser]
    /\ changes = 0
    /\ last_change = NoChange

\* Database::create_user: INSERT ... ON CONFLICT DO NOTHING
CreateUser(u, name) ==
    /\ changes < MaxChanges
    /\ ~users[u].present
    /\ changes' = changes + 1
    /\ IF username_taken(users, u, name)
       THEN /\ UNCHANGED users
            /\ last_change' = [op |-> "create_user", user |-> u, name |-> name,
                               result |-> "UsernameConflict",
                               response |-> "UsernameConflict"]
       ELSE /\ users' = [users EXCEPT ![u] = UserRecord(name, name)]
            /\ last_change' = [op |-> "create_user", user |-> u, name |-> name,
                               result |-> "Ok", response |-> "Ok"]
    /\ UNCHANGED notProfileVars

ChangeUsername(u, name) ==
    /\ changes < MaxChanges
    /\ changes' = changes + 1
    /\ LET r == change_username(users, u, name) IN
       /\ users' = r.table
       /\ last_change' = [op |-> "change_username", user |-> u, name |-> name,
                          result |-> r.result,
                          response |-> change_response(r.result)]
    /\ UNCHANGED notProfileVars

ChangeDisplayName(u, name) ==
    /\ changes < MaxChanges
    /\ changes' = changes + 1
    /\ LET r == change_display_name(users, u, name) IN
       /\ users' = r.table
       /\ last_change' = [op |-> "change_display_name", user |-> u, name |-> name,
                          result |-> r.result,
                          response |-> change_response(r.result)]
    /\ UNCHANGED notProfileVars

ProfileNext ==
    \/ \E u \in Users, name \in Names : CreateUser(u, name)
    \/ \E u \in Users, name \in Names : ChangeUsername(u, name)
    \/ \E u \in Users, name \in Names : ChangeDisplayName(u, name)

(***************************************************************************)
(* SpecRate: the rate limiter, its hourly rebuild and the requests of the  *)
(* sessions.  One unit of rate_clock is the time in which one cell is      *)
(* replenished: a minute has RATELIMIT_BURST_PER_MIN of them.              *)
(***************************************************************************)
\* a mutant of new_ratelimiter: the burst is one cell too many
new_ratelimiter_extra == [d \in Devices |-> RATELIMIT_BURST_PER_MIN + 1]

\* new_ratelimiter: Quota::per_minute(RATELIMIT_BURST_PER_MIN), every key
\* with a full burst
new_ratelimiter == [d \in Devices |-> RATELIMIT_BURST_PER_MIN]

\* the quota replenishes one cell per unit of time, up to the burst
replenish(bucket) ==
    [d \in Devices |-> IF bucket[d] < new_ratelimiter[d] THEN bucket[d] + 1 ELSE bucket[d]]

RateInit ==
    /\ rate_clock = 0
    /\ rate_bucket = new_ratelimiter
    /\ rate_rebuilds = 0
    /\ rate_log = <<>>
    /\ store_calls = 0

\* the variables of SpecRate at rest, for the other specifications
RateIdle ==
    /\ rate_clock = 0
    /\ rate_bucket = [d \in Devices |-> 0]
    /\ rate_rebuilds = 0
    /\ rate_log = <<>>
    /\ store_calls = 0

\* time passes: one cell is replenished to every device
RateTick ==
    /\ rate_clock < MaxRateTime
    /\ rate_clock' = rate_clock + 1
    /\ rate_bucket' = replenish(rate_bucket)
    /\ UNCHANGED <<rate_rebuilds, rate_log, store_calls>>
    /\ UNCHANGED notRateVars

\* refresh_ratelimiter: rl.store(Arc::new(new_ratelimiter())). rl is
\* global.ratelimiter.clone(), and the clone of an ArcSwap is an ArcSwap of
\* its own that starts with the same instance: the store replaces the
\* instance held by the task's ArcSwap, and the ArcSwap of Global, which the
\* sessions read, keeps the limiter it was made with
RefreshRatelimiter ==
    /\ rate_rebuilds < MaxRebuilds
    /\ rate_rebuilds' = rate_rebuilds + 1
    /\ UNCHANGED <<rate_clock, rate_bucket, rate_log, store_calls>>
    /\ UNCHANGED notRateVars

\* a session receives a request: it takes a cell of its device from the
\* limiter, and only then calls RequestHandler::handle_request
RateRequest(d) ==
    /\ Len(rate_log) < MaxRequests
    /\ IF rate_bucket[d] > 0
       THEN /\ rate_bucket' = [rate_bucket EXCEPT ![d] = @ - 1]
            /\ store_calls' = store_calls + 1
            /\ rate_log' = Append(rate_log,
                  [device |-> d, time |-> rate_clock, rebuilds |-> rate_rebuilds,
                   response |-> "Handled"])
       ELSE /\ UNCHANGED <<rate_bucket, store_calls>>
            /\ rate_log' = Append(rate_log,
                  [device |-> d, time |-> rate_clock, rebuilds |-> rate_rebuilds,
                   response |-> "RateLimited"])
    /\ UNCHANGED <<rate_clock, rate_rebuilds>>
    /\ UNCHANGED notRateVars

RateNext ==
    \/ RateTick
    \/ RefreshRatelimiter
    \/ \E d \in Devices : RateRequest(d)

(***************************************************************************)
(* SpecRequest: the handlers of RequestHandler that address a community:   *)
(* send_message, edit_message, create_room and create_invite.  A handler   *)
(* is an operator that yields the response, what it sends to the           *)
(* community's actor, and the store and the active-user table it leaves.   *)
(***************************************************************************)
CommunityIds == {"c1", "c2"}

TokenPermissionFlags == {"SEND_MESSAGES", "CREATE_ROOMS", "CREATE_INVITES"}

has_perms(flag) == flag \in perms

\* ActiveSession::in_community: the community is one of the session's
in_community(c) == c \in DOMAIN user_communities

\* what a handler leaves when it returns early: a response and no effect
Refused(response) ==
    [response |-> response, mail |-> <<>>, invites |-> invite_codes,
     communities |-> user_communities]

\* what a handler leaves after sending msg to the actor of community c
Sent(response, c, msg) ==
    [response |-> response, mail |-> <<[community |-> c, message |-> msg]>>,
     invites |-> invite_codes, communities |-> user_communities]

\* a mutant of send_message: the check of in_community is skipped
send_message_unchecked(c) ==
    IF ~has_perms("SEND_MESSAGES") THEN Refused("AccessDenied")
    ELSE IF c \in COMMUNITIES THEN Sent("ConfirmMessage", c, "IdentifiedMessage")
    ELSE Refused("InvalidCommunity")

send_message(c) ==
    IF ~has_perms("SEND_MESSAGES") THEN Refused("AccessDenied")
    ELSE IF ~in_community(c) THEN Refused("InvalidCommunity")
    ELSE IF c \in COMMUNITIES THEN Sent("ConfirmMessage", c, "IdentifiedMessage")
    ELSE Refused("InvalidCommunity")

edit_message(c) ==
    IF ~has_perms("SEND_MESSAGES") THEN Refused("AccessDenied")
    ELSE IF ~in_community(c) THEN Refused("InvalidCommunity")
    ELSE IF c \in COMMUNITIES THEN Sent("NoData", c, "Edit")
    ELSE Refused("InvalidCommunity")

\* the id the actor gives to the room it creates
NewRoomId(c) == Cardinality(user_communities[c]) + 1

create_room(c) ==
    IF ~has_perms("CREATE_ROOMS") THEN Refused("AccessDenied")
    ELSE IF ~in_community(c) THEN Refused("InvalidCommunity")
    ELSE IF c \in COMMUNITIES
         THEN IF c \in DOMAIN user_communities
              THEN [Sent("AddRoom", c, "CreateRoom") EXCEPT
                      !.communities = [user_communities EXCEPT
                                         ![c] = @ \cup {NewRoomId(c)}]]
              ELSE Sent("InvalidCommunity", c, "CreateRoom")
    ELSE Refused("InvalidCommunity")

\* Database::create_invite_code(community, expiration_date, max)
create_invite_code(c, max) ==
    IF invite_codes[c] >= max
        THEN [ok |-> FALSE, invites |-> invite_codes]
        ELSE [ok |-> TRUE, invites |-> [invite_codes EXCEPT ![c] = @ + 1]]

\* a mutant of create_invite: the limit passed to the store is one too many
create_invite_lax(c) ==
    IF ~has_perms("CREATE_INVITES") THEN Refused("AccessDenied")
    ELSE IF ~in_community(c) THEN Refused("InvalidCommunity")
    ELSE IF c \in COMMUNITIES
         THEN LET res == create_invite_code(c, max_invite_codes_per_community + 1)
              IN  [Refused(IF res.ok THEN "NewInvite" ELSE "TooManyInviteCodes")
                     EXCEPT !.invites = res.invites]
    ELSE Refused("InvalidCommunity")

create_invite(c) ==
    IF ~has_perms("CREATE_INVITES") THEN Refused("AccessDenied")
    ELSE IF ~in_community(c) THEN Refused("InvalidCommunity")
    ELSE IF c \in COMMUNITIES
         THEN LET res == create_invite_code(c, max_invite_codes_per_community)
              IN  [Refused(IF res.ok THEN "NewInvite" ELSE "TooManyInviteCodes")
                     EXCEPT !.invites = res.invites]
    ELSE Refused("InvalidCommunity")

\* handle_request: the dispatch over the variants modelled here
handle_request(kind, c) ==
    CASE kind = "SendMessage" -> send_message(c)
      [] kind = "EditMessage" -> edit_message(c)
      [] kind = "CreateRoom" -> create_room(c)
      [] kind = "CreateInvite" -> create_invite(c)

RequestKinds == {"SendMessage", "EditMessage", "CreateRoom", "CreateInvite"}

\* the permission a request of this kind needs
RequiredFlag(kind) ==
    CASE kind \in {"SendMessage", "EditMessage"} -> "SEND_MESSAGES"
      [] kind = "CreateRoom" -> "CREATE_ROOMS"
      [] kind = "CreateInvite" -> "CREATE_INVITES"

RequestInit ==
    /\ perms \in SUBSET TokenPermissionFlags
    /\ \E joined \in SUBSET CommunityIds : user_communities = [c \in joined |-> {}]
    /\ COMMUNITIES \in SUBSET CommunityIds
    /\ actor_mail = <<>>
    /\ invite_codes = [c \in CommunityIds |-> 0]
    /\ req_log = <<>>

\* the variables of SpecRequest at rest, for the other specifications
RequestIdle ==
    /\ perms = {}
    /\ user_communities = <<>>
    /\ COMMUNITIES = {}
    /\ actor_mail = <<>>
    /\ invite_codes = [c \in CommunityIds |-> 0]
    /\ req_log = <<>>

\* the session handles one request of the client
HandleRequest(kind, c) ==
    /\ Len(req_log) < MaxHandled
    /\ LET out == handle_request(kind, c)
       IN  /\ actor_mail' = actor_mail \o out.mail
           /\ invite_codes' = out.invites
           /\ user_communities' = out.communities
           /\ req_log' = Append(req_log, [session |-> "self", kind |-> kind,
                                          community |-> c,
                                          response |-> out.response])
    /\ UNCHANGED <<perms, COMMUNITIES>>
    /\ UNCHANGED notRequestVars

\* a session of another device handles CreateInvite for a community it has
\* joined, with the permission: its create_invite reaches the store
PeerCreateInvite(c) ==
    /\ Len(req_log) < MaxHandled
    /\ c \in COMMUNITIES
    /\ LET res == create_invite_code(c, max_invite_codes_per_community)
       IN  /\ invite_codes' = res.invites
           /\ req_log' = Append(req_log, [session |-> "peer", kind |-> "CreateInvite",
                                          community |-> c,
                                          response |-> IF res.ok THEN "NewInvite"
                                                       ELSE "TooManyInviteCodes"])
    /\ UNCHANGED <<perms, user_communities, COMMUNITIES, actor_mail>>
    /\ UNCHANGED notRequestVars

RequestNext ==
    \/ \E kind \in RequestKinds, c \in CommunityIds : HandleRequest(kind, c)
    \/ \E c \in CommunityIds : PeerCreateInvite(c)

(***************************************************************************)
(* SpecToken: register, create_token, authenticate, revoke_token, LogOut,  *)
(* the token sweep and the locking of accounts, over the tables users and  *)
(* login_tokens.                                                           *)
(***************************************************************************)
Accounts == {"ann"}
Passwords == {"pw1", "pw2"}
Secrets == {"t1", "t2"}
NoPassword == "none"

\* auth::hash: a one-way image of a password or of a token
Hash(x) == <<"hash", x>>

NoAccount ==
    [present |-> FALSE, password_hash |-> <<>>, compromised |-> FALSE,
     locked |-> FALSE, banned |-> FALSE]

\* UserRecord::new
NewAccount(password_hash) ==
    [present |-> TRUE, password_hash |-> password_hash, compromised |-> FALSE,
     locked |-> FALSE, banned |-> FALSE]

\* Database::create_user: INSERT ... ON CONFLICT DO NOTHING
create_user(us, u, account) ==
    IF us[u].present
        THEN [ok |-> FALSE, users |-> us]
        ELSE [ok |-> TRUE, users |-> [us EXCEPT ![u] = account]]

\* Database::set_locked and set_banned
set_locked(us, u, b) == [us EXCEPT ![u].locked = b]
set_banned(us, u, b) == [us EXCEPT ![u].banned = b]

\* a row of login_tokens
NoTokenRow ==
    [present |-> FALSE, user |-> "none", token_hash |-> <<>>, last_used |-> 0,
     expiration_date |-> NoDate]

TokenRow(u, h, used, exp) ==
    [present |-> TRUE, user |-> u, token_hash |-> h, last_used |-> used,
     expiration_date |-> exp]

\* Handler<GetToken>: SELECT * FROM login_tokens WHERE device=$1
GetToken(tokens, d) == tokens[d]

\* Handler<CreateToken>: INSERT INTO login_tokens; device is the primary key
CreateToken(tokens, d, row) ==
    IF tokens[d].present
        THEN [ok |-> FALSE, tokens |-> tokens]
        ELSE [ok |-> TRUE, tokens |-> [tokens EXCEPT ![d] = row]]

\* a mutant of RevokeToken: the row is left in the table
RevokeTokenKept(tokens, d) ==
    [ok |-> tokens[d].present, tokens |-> tokens]

\* Handler<RevokeToken>: DELETE FROM login_tokens WHERE device = $1
RevokeToken(tokens, d) ==
    [ok |-> tokens[d].present, tokens |-> [tokens EXCEPT ![d] = NoTokenRow]]

\* Handler<RefreshToken>: UPDATE login_tokens SET last_used=NOW()
RefreshToken(tokens, d, t) ==
    IF tokens[d].present THEN [tokens EXCEPT ![d].last_used = t] ELSE tokens

\* Authenticator: the credentials are those of a user
verify_credentials(us, u, p) ==
    /\ us[u].present
    /\ us[u].password_hash = Hash(p)

\* Authenticator::login (authenticate): the outcome for (device, token)
authenticate(tokens, us, d, t, clock) ==
    LET row == GetToken(tokens, d)
    IN  IF ~row.present THEN "InvalidToken"
        ELSE IF row.token_hash # Hash(t) THEN "InvalidToken"
        ELSE IF TokenStale(row, clock, TokenExpiryDays) THEN "TokenExpired"
        ELSE IF us[row.user].locked THEN "UserLocked"
        ELSE "Ok"

NotIssued == [issued |-> FALSE, secret |-> "none", revoked |-> FALSE, swept |-> FALSE]

NoOperation ==
    [op |-> "None", account |-> "none", secret |-> "none", device |-> "none",
     result |-> "None"]

TokenInit ==
    /\ tk_now = 0
    /\ tk_users = [u \in Accounts |-> NoAccount]
    /\ tk_tokens = [d \in Devices |-> NoTokenRow]
    /\ tk_sessions = {}
    /\ tk_issued = [d \in Devices |-> NotIssued]
    /\ tk_credentials = [u \in Accounts |-> NoPassword]
    /\ tk_last = NoOperation

\* the variables of SpecToken at rest, for the other specifications
TokenIdle ==
    /\ tk_now = 0
    /\ tk_users = [u \in Accounts |-> NoAccount]
    /\ tk_tokens = [d \in Devices |-> NoTokenRow]
    /\ tk_sessions = {}
    /\ tk_issued = [d \in Devices |-> NotIssued]
    /\ tk_credentials = [u \in Accounts |-> NoPassword]
    /\ tk_last = NoOperation

TokenTick ==
    /\ tk_now < MaxTokenTime
    /\ tk_now' = tk_now + 1
    /\ UNCHANGED <<tk_users, tk_tokens, tk_sessions, tk_issued, tk_credentials, tk_last>>
    /\ UNCHANGED notTokenVars

\* POST register: Authenticator::create_user hashes the password and inserts
Register(u, p) ==
    /\ LET res == create_user(tk_users, u, NewAccount(Hash(p)))
       IN  /\ tk_users' = res.users
           /\ tk_credentials' = IF res.ok THEN [tk_credentials EXCEPT ![u] = p]
                                ELSE tk_credentials
           /\ tk_last' = [op |-> "register", account |-> u, secret |-> p, device |-> "none",
                          result |-> IF res.ok THEN "Ok" ELSE "UsernameAlreadyExists"]
    /\ UNCHANGED <<tk_now, tk_tokens, tk_sessions, tk_issued>>
    /\ UNCHANGED notTokenVars

\* an administrator locks, unlocks, bans or unbans an account
SetLocked(u, b) ==
    /\ tk_users[u].present
    /\ tk_users' = set_locked(tk_users, u, b)
    /\ tk_last' = [NoOperation EXCEPT !.op = "set_locked", !.account = u, !.result = "Ok"]
    /\ UNCHANGED <<tk_now, tk_tokens, tk_sessions, tk_issued, tk_credentials>>
    /\ UNCHANGED notTokenVars

SetBanned(u, b) ==
    /\ tk_users[u].present
    /\ tk_users' = set_banned(tk_users, u, b)
    /\ tk_last' = [NoOperation EXCEPT !.op = "set_banned", !.account = u, !.result = "Ok"]
    /\ UNCHANGED <<tk_now, tk_tokens, tk_sessions, tk_issued, tk_credentials>>
    /\ UNCHANGED notTokenVars

\* POST create: Authenticator::create_token verifies the credentials, draws a
\* fresh device id d and a token t, and stores hash(t) with last_used = now
CreateTokenRequest(u, p, exp, d, t) ==
    /\ ~tk_issued[d].issued
    /\ LET failure ==
              IF ~verify_credentials(tk_users, u, p) THEN "IncorrectUsernameOrPassword"
              ELSE IF tk_users[u].locked THEN "UserLocked"
              ELSE IF tk_users[u].banned THEN "UserBanned"
              ELSE IF tk_users[u].compromised THEN "UserCompromised"
              ELSE "None"
           res == CreateToken(tk_tokens, d, TokenRow(u, Hash(t), tk_now, exp))
       IN  IF failure # "None"
           THEN /\ tk_last' = [op |-> "create_token", account |-> u, secret |-> p,
                               device |-> "none",
                               result |-> failure]
                /\ UNCHANGED <<tk_tokens, tk_issued>>
           ELSE /\ tk_tokens' = res.tokens
                /\ tk_issued' = IF res.ok
                                THEN [tk_issued EXCEPT ![d] = [NotIssued EXCEPT
                                        !.issued = TRUE, !.secret = t]]
                                ELSE tk_issued
                /\ tk_last' = [op |-> "create_token", account |-> u, secret |-> p,
                               device |-> d,
                               result |-> IF res.ok THEN "Ok" ELSE "Internal"]
    /\ UNCHANGED <<tk_now, tk_users, tk_sessions, tk_credentials>>
    /\ UNCHANGED notTokenVars

\* GET authenticate with (device, token): on success last_used is refreshed
\* and the device holds a session
Authenticate(d, t) ==
    /\ LET result == authenticate(tk_tokens, tk_users, d, t, tk_now)
       IN  /\ tk_tokens' = IF result = "Ok" THEN RefreshToken(tk_tokens, d, tk_now)
                           ELSE tk_tokens
           /\ tk_sessions' = IF result = "Ok" THEN tk_sessions \cup {d} ELSE tk_sessions
           /\ tk_last' = [op |-> "authenticate", account |-> "none", secret |-> t,
                          device |-> d,
                          result |-> result]
    /\ UNCHANGED <<tk_now, tk_users, tk_issued, tk_credentials>>
    /\ UNCHANGED notTokenVars

\* POST revoke: Authenticator::revoke_token is gated by the credentials
RevokeTokenRequest(u, p, d) ==
    /\ LET ok == verify_credentials(tk_users, u, p)
           res == RevokeToken(tk_tokens, d)
       IN  /\ tk_tokens' = IF ok THEN res.tokens ELSE tk_tokens
           /\ tk_sessions' = IF ok THEN tk_sessions \ {d} ELSE tk_sessions
           /\ tk_issued' = IF ok /\ res.ok THEN [tk_issued EXCEPT ![d].revoked = TRUE]
                           ELSE tk_issued
           /\ tk_last' = [op |-> "revoke_token", account |-> u, secret |-> p,
                          device |-> d,
                          result |-> IF ~ok THEN "IncorrectUsernameOrPassword"
                                     ELSE IF res.ok THEN "Ok" ELSE "DeviceDoesNotExist"]
    /\ UNCHANGED <<tk_now, tk_users, tk_credentials>>
    /\ UNCHANGED notTokenVars

\* ClientRequest::LogOut on the session of device d: log_out
log_out(d) ==
    /\ d \in tk_sessions
    /\ LET res == RevokeToken(tk_tokens, d)
       IN  /\ tk_tokens' = res.tokens
           /\ tk_sessions' = IF res.ok THEN tk_sessions \ {d} ELSE tk_sessions
           /\ tk_issued' = IF res.ok THEN [tk_issued EXCEPT ![d].revoked = TRUE]
                           ELSE tk_issued
           /\ tk_last' = [op |-> "log_out", account |-> "none", secret |-> "none",
                          device |-> d,
                          result |-> IF res.ok THEN "NoData" ELSE "DeviceDoesNotExist"]
    /\ UNCHANGED <<tk_now, tk_users, tk_credentials>>
    /\ UNCHANGED notTokenVars

\* Database::change_password: UPDATE users SET password_hash, compromised
change_password_row(us, u, new_password_hash) ==
    IF us[u].present
        THEN [ok |-> TRUE, users |-> [us EXCEPT ![u].password_hash = new_password_hash,
                                                ![u].compromised = FALSE]]
        ELSE [ok |-> FALSE, users |-> us]

\* ClientRequest::ChangePassword on the session of device d: change_password
change_password(d, old_password, new_password) ==
    /\ d \in tk_sessions
    /\ tk_tokens[d].present
    /\ LET u == tk_tokens[d].user
           verified == verify_credentials(tk_users, u, old_password)
           res == change_password_row(tk_users, u, Hash(new_password))
       IN  /\ tk_users' = IF verified THEN res.users ELSE tk_users
           /\ tk_credentials' = IF verified /\ res.ok
                                THEN [tk_credentials EXCEPT ![u] = new_password]
                                ELSE tk_credentials
           /\ tk_last' = [op |-> "change_password", account |-> u,
                          secret |-> new_password, device |-> d,
                          result |-> IF ~verified THEN "IncorrectUsernameOrPassword"
                                     ELSE IF res.ok THEN "NoData" ELSE "UserDeleted"]
    /\ UNCHANGED <<tk_now, tk_tokens, tk_sessions, tk_issued>>
    /\ UNCHANGED notTokenVars

\* one pass of sweep_tokens_loop: the expired rows are deleted and their
\* sessions removed
TokenSweep ==
    /\ \E d \in Devices : expired_tokens(tk_tokens[d], tk_now, TokenExpiryDays)
    /\ LET gone == {d \in Devices : expired_tokens(tk_tokens[d], tk_now, TokenExpiryDays)}
       IN  /\ tk_tokens' = [d \in Devices |-> IF d \in gone THEN NoTokenRow ELSE tk_tokens[d]]
           /\ tk_sessions' = tk_sessions \ gone
           /\ tk_issued' = [d \in Devices |-> IF d \in gone
                                THEN [tk_issued[d] EXCEPT !.swept = TRUE]
                                ELSE tk_issued[d]]
    /\ tk_last' = [NoOperation EXCEPT !.op = "sweep", !.result = "Ok"]
    /\ UNCHANGED <<tk_now, tk_users, tk_credentials>>
    /\ UNCHANGED notTokenVars

TokenNext ==
    \/ TokenTick
    \/ \E u \in Accounts, p \in Passwords : Register(u, p)
    \/ \E u \in Accounts, b \in BOOLEAN : SetLocked(u, b)
    \/ \E u \in Accounts, b \in BOOLEAN : SetBanned(u, b)
    \/ \E u \in Accounts, p \in Passwords, exp \in {NoDate, 1}, d \in Devices, t \in Secrets :
          CreateTokenRequest(u, p, exp, d, t)
    \/ \E d \in Devices, t \in Secrets : Authenticate(d, t)
    \/ \E u \in Accounts, p \in Passwords, d \in Devices : RevokeTokenRequest(u, p, d)
    \/ \E d \in Devices : log_out(d)
    \/ \E d \in Devices, old_password, new_password \in Passwords :
          change_password(d, old_password, new_password)
    \/ TokenSweep

(***************************************************************************)
(* SpecAdmin: promote_and_demote, run at every start of the server, over   *)
(* the tables users and administrators.                                    *)
(***************************************************************************)
\* AdminPermissionFlags, as the bits of the column permission_flags
ALL == 1
BAN == 2
NoFlags == 0

\* no row of administrators for the user
NoAdminRow == -1

\* the usernames given on the command line: those of Names, and one that no
\* user has; NoArgument when the flag is absent
UnknownName == "zed"
NoArgument == "none"
Arguments == Names \cup {UnknownName, NoArgument}

\* Database::get_user_by_name
get_user_by_name(name) == name \in adm_users

\* Database::get_admin_permissions: no row reads as no permissions
get_admin_permissions(table, u) ==
    IF table[u] = NoAdminRow THEN NoFlags ELSE table[u]

\* Database::set_admin_permissions: UPDATE administrators SET
\* permission_flags = $1 WHERE user_id = $2, Ok iff one row was modified
set_admin_permissions(table, u, permissions) ==
    IF table[u] # NoAdminRow
        THEN [ok |-> TRUE, table |-> [table EXCEPT ![u] = permissions]]
        ELSE [ok |-> FALSE, table |-> table]

\* one of the two loops of promote_and_demote, for one name: the table it
\* leaves, and whether it panicked
promote_or_demote(table, name, permissions) ==
    IF name = NoArgument THEN [outcome |-> "done", table |-> table]
    ELSE IF ~get_user_by_name(name)
        THEN [outcome |-> "panic: Invalid username", table |-> table]
    ELSE LET res == set_admin_permissions(table, name, permissions)
         IN  IF res.ok THEN [outcome |-> "done", table |-> res.table]
             ELSE [outcome |-> "panic: InvalidUser", table |-> res.table]

\* promote_and_demote: the --add-admin loop, then the --remove-admin loop; a
\* panic ends the process
promote_and_demote(table, add, remove) ==
    LET promoted == promote_or_demote(table, add, ALL)
    IN  IF promoted.outcome # "done" THEN promoted
        ELSE promote_or_demote(promoted.table, remove, NoFlags)

NoRun == [add |-> NoArgument, remove |-> NoArgument, outcome |-> "none"]

AdminInit ==
    /\ adm_users \in SUBSET Names
    /\ administrators \in [Names -> {NoAdminRow, NoFlags, ALL, BAN}]
    /\ \A u \in Names \ adm_users : administrators[u] = NoAdminRow
    /\ adm_runs = 0
    /\ adm_last = NoRun

\* the variables of SpecAdmin at rest, for the other specifications
AdminIdle ==
    /\ adm_users = {}
    /\ administrators = [u \in Names |-> NoAdminRow]
    /\ adm_runs = 0
    /\ adm_last = NoRun

\* the server is started with the given --add-admin and --remove-admin
StartServer(add, remove) ==
    /\ adm_runs < MaxRuns
    /\ adm_runs' = adm_runs + 1
    /\ LET res == promote_and_demote(administrators, add, remove)
       IN  /\ administrators' = res.table
           /\ adm_last' = [add |-> add, remove |-> remove, outcome |-> res.outcome]
    /\ UNCHANGED adm_users
    /\ UNCHANGED notAdminVars

AdminNext == \E add, remove \in Arguments : StartServer(add, remove)

(***************************************************************************)
(* SpecDispatch: the dispatch of handle_request over the variants of       *)
(* ClientRequest, and the framing of its result with the request id.       *)
(***************************************************************************)
\* the variants of ClientRequest that handle_request has an arm for
Implemented ==
    {"SendMessage", "EditMessage", "JoinCommunity", "CreateCommunity", "LogOut",
     "GetUserProfile", "ChangeUsername", "ChangeDisplayName", "ChangePassword",
     "CreateRoom", "CreateInvite", "GetRoomUpdate", "SelectRoom", "DeselectRoom",
     "GetMessages", "SetAsRead"}

\* the variants of ClientRequest the client sends here: some with an arm,
\* and the two further variants of the protocol
Variants == {"SendMessage", "GetUserProfile", "LogOut", "ReportMessage", "BanUsers"}

\* handle_request: a ResponseResult from the arm of the variant, or the
\* panic of `_ => unimplemented!()`
dispatch(variant) ==
    IF variant \in Implemented THEN "ResponseResult" ELSE "unimplemented"

DispatchInit ==
    /\ ds_inbox = <<>>
    /\ ds_outbox = <<>>
    /\ ds_running = TRUE
    /\ ds_handled = <<>>
    /\ ds_next_id = 1

\* the variables of SpecDispatch at rest, for the other specifications
DispatchIdle ==
    /\ ds_inbox = <<>>
    /\ ds_outbox = <<>>
    /\ ds_running = FALSE
    /\ ds_handled = <<>>
    /\ ds_next_id = 1

\* the client sends a request frame on the open session
ClientSends(variant) ==
    /\ ds_running
    /\ ds_next_id <= MaxRequestId
    /\ ds_inbox' = Append(ds_inbox, [request_id |-> ds_next_id, variant |-> variant])
    /\ ds_next_id' = ds_next_id + 1
    /\ UNCHANGED <<ds_outbox, ds_running, ds_handled>>
    /\ UNCHANGED notDispatchVars

\* the session handles the oldest request: the result of handle_request is
\* framed with the request id and written; a panic ends the actor, and
\* LogOut stops it after the response
DispatchRequest ==
    /\ ds_running
    /\ ds_inbox # <<>>
    /\ LET request == Head(ds_inbox)
           result == dispatch(request.variant)
       IN  /\ ds_inbox' = Tail(ds_inbox)
           /\ ds_handled' = Append(ds_handled, request.request_id)
           /\ IF result = "unimplemented"
              THEN /\ ds_running' = FALSE
                   /\ UNCHANGED ds_outbox
              ELSE /\ ds_outbox' = Append(ds_outbox, [request_id |-> request.request_id,
                                                      response |-> result])
                   /\ ds_running' = (request.variant # "LogOut")
    /\ UNCHANGED ds_next_id
    /\ UNCHANGED notDispatchVars

DispatchNext ==
    \/ \E variant \in Variants : ClientSends(variant)
    \/ DispatchRequest

(***************************************************************************)
(* SpecFault: handlers whose store call or actor call may fail: the error  *)
(* conversions From<DatabaseError> for ErrResponse and handle_disconnected,*)
(* and what the handler did to the session before the failing call.        *)
(***************************************************************************)
FaultRooms == {"r1", "r2"}

\* From<DatabaseError> for ErrResponse: every store error becomes Internal
FromDatabaseError(e) == "Internal"

\* handle_disconnected: a disconnected actor becomes Error::Internal
handle_disconnected(actor_name) == "Internal"

StoreErrors == {"pool", "sql"}
NoFault == "none"

\* get_user_profile: the store call, then Profile or InvalidUser
get_user_profile(found, fault) ==
    IF fault # NoFault THEN FromDatabaseError(fault)
    ELSE IF found THEN "Profile" ELSE "InvalidUser"

\* send_message and edit_message, from the send to the actor on
actor_send(fault) ==
    IF fault # NoFault THEN handle_disconnected("Community") ELSE "ConfirmMessage"

\* set_as_read: the room is marked read in the cache, then in the store
set_as_read(cache, store, room, fault) ==
    LET marked == [cache EXCEPT ![room] = FALSE]
    IN  IF fault # NoFault
        THEN [response |-> FromDatabaseError(fault), cache |-> marked, store |-> store]
        ELSE [response |-> "NoData", cache |-> marked,
              store |-> [store EXCEPT ![room] = FALSE]]

NoFaultRequest == [kind |-> "None", fault |-> NoFault, response |-> "None"]

FaultInit ==
    /\ ft_unread \in [FaultRooms -> BOOLEAN]
    /\ ft_store_unread = ft_unread
    /\ ft_open = TRUE
    /\ ft_requests = 0
    /\ ft_last = NoFaultRequest

\* the variables of SpecFault at rest, for the other specifications
FaultIdle ==
    /\ ft_unread = [r \in FaultRooms |-> FALSE]
    /\ ft_store_unread = [r \in FaultRooms |-> FALSE]
    /\ ft_open = FALSE
    /\ ft_requests = 0
    /\ ft_last = NoFaultRequest

\* a message arrives in the room: it is unread in the cache and in the store
FaultNewMessage(room) ==
    /\ ft_open
    /\ ft_unread' = [ft_unread EXCEPT ![room] = TRUE]
    /\ ft_store_unread' = [ft_store_unread EXCEPT ![room] = TRUE]
    /\ UNCHANGED <<ft_open, ft_requests, ft_last>>
    /\ UNCHANGED notFaultVars

GetUserProfile(found, fault) ==
    /\ ft_open
    /\ ft_requests < MaxFaultRequests
    /\ ft_requests' = ft_requests + 1
    /\ ft_last' = [kind |-> "GetUserProfile", fault |-> fault,
                   response |-> get_user_profile(found, fault)]
    /\ UNCHANGED <<ft_unread, ft_store_unread, ft_open>>
    /\ UNCHANGED notFaultVars

FaultSendMessage(fault) ==
    /\ ft_open
    /\ ft_requests < MaxFaultRequests
    /\ ft_requests' = ft_requests + 1
    /\ ft_last' = [kind |-> "SendMessage", fault |-> fault, response |-> actor_send(fault)]
    /\ UNCHANGED <<ft_unread, ft_store_unread, ft_open>>
    /\ UNCHANGED notFaultVars

SetAsRead(room, fault) ==
    /\ ft_open
    /\ ft_requests < MaxFaultRequests
    /\ ft_requests' = ft_requests + 1
    /\ LET out == set_as_read(ft_unread, ft_store_unread, room, fault)
       IN  /\ ft_unread' = out.cache
           /\ ft_store_unread' = out.store
           /\ ft_last' = [kind |-> "SetAsRead", fault |-> fault, response |-> out.response]
    /\ UNCHANGED ft_open
    /\ UNCHANGED notFaultVars

FaultNext ==
    \/ \E room \in FaultRooms : FaultNewMessage(room)
    \/ \E found \in BOOLEAN, fault \in StoreErrors \cup {NoFault} : GetUserProfile(found, fault)
    \/ \E fault \in {"disconnected", NoFault} : FaultSendMessage(fault)
    \/ \E room \in FaultRooms, fault \in StoreErrors \cup {NoFault} : SetAsRead(room, fault)

(***************************************************************************)
(* SpecPerms: the handlers of RequestHandler that need a permission flag,  *)
(* each as the sequence of its checks and the effects behind them.         *)
(***************************************************************************)
AllPermissionFlags ==
    {"SEND_MESSAGES", "CHANGE_USERNAME", "CHANGE_DISPLAY_NAME", "CREATE_COMMUNITIES",
     "JOIN_COMMUNITIES", "CREATE_ROOMS", "CREATE_INVITES"}

FlaggedRequests ==
    {"SendMessage", "EditMessage", "ChangeUsername", "ChangeDisplayName",
     "CreateCommunity", "JoinCommunity", "CreateRoom", "CreateInvite"}

\* the outcome of a handler: its response and what it wrote
Outcome(response, store, session, community) ==
    [response |-> response, store |-> store, session |-> session, community |-> community]

Denied == Outcome("AccessDenied", 0, 0, 0)

\* send_message and edit_message: the flag, in_community, then the actor
flagged_send_message(flags, joined, response) ==
    IF "SEND_MESSAGES" \notin flags THEN Denied
    ELSE IF ~joined THEN Outcome("InvalidCommunity", 0, 0, 0)
    ELSE Outcome(response, 0, 0, 1)

\* a mutant of flagged_change_username: the name is validated first
flagged_change_username_late(flags, valid) ==
    IF ~valid THEN Outcome("InvalidUsername", 0, 0, 0)
    ELSE IF "CHANGE_USERNAME" \notin flags THEN Denied
    ELSE Outcome("NoData", 1, 0, 0)

\* change_username: the flag, prepare_username, then the store
flagged_change_username(flags, valid) ==
    IF "CHANGE_USERNAME" \notin flags THEN Denied
    ELSE IF ~valid THEN Outcome("InvalidUsername", 0, 0, 0)
    ELSE Outcome("NoData", 1, 0, 0)

\* change_display_name: the flag, valid_display_name, then the store
flagged_change_display_name(flags, valid) ==
    IF "CHANGE_DISPLAY_NAME" \notin flags THEN Denied
    ELSE IF ~valid THEN Outcome("InvalidDisplayName", 0, 0, 0)
    ELSE Outcome("NoData", 1, 0, 0)

\* create_community: the flag, the store, then the actor and join_community_by_id
flagged_create_community(flags) ==
    IF "CREATE_COMMUNITIES" \notin flags THEN Denied
    ELSE Outcome("AddCommunity", 1, 1, 1)

\* join_community: the flag, the length of the code, the store's lookup, then
\* join_community_by_id
flagged_join_community(flags, valid) ==
    IF "JOIN_COMMUNITIES" \notin flags THEN Denied
    ELSE IF ~valid THEN Outcome("InvalidInviteCode", 0, 0, 0)
    ELSE Outcome("AddCommunity", 0, 1, 1)

\* create_room: the flag, in_community, the actor, then the cached rooms
flagged_create_room(flags, joined) ==
    IF "CREATE_ROOMS" \notin flags THEN Denied
    ELSE IF ~joined THEN Outcome("InvalidCommunity", 0, 0, 0)
    ELSE Outcome("AddRoom", 0, 1, 1)

\* create_invite: the flag, in_community, then the store
flagged_create_invite(flags, joined) ==
    IF "CREATE_INVITES" \notin flags THEN Denied
    ELSE IF ~joined THEN Outcome("InvalidCommunity", 0, 0, 0)
    ELSE Outcome("NewInvite", 1, 0, 0)

\* handle_request on the requests that need a flag
flagged_request(kind, flags, valid, joined) ==
    CASE kind = "SendMessage" -> flagged_send_message(flags, joined, "ConfirmMessage")
      [] kind = "EditMessage" -> flagged_send_message(flags, joined, "NoData")
      [] kind = "ChangeUsername" -> flagged_change_username(flags, valid)
      [] kind = "ChangeDisplayName" -> flagged_change_display_name(flags, valid)
      [] kind = "CreateCommunity" -> flagged_create_community(flags)
      [] kind = "JoinCommunity" -> flagged_join_community(flags, valid)
      [] kind = "CreateRoom" -> flagged_create_room(flags, joined)
      [] kind = "CreateInvite" -> flagged_create_invite(flags, joined)

\* the flag the handler of kind asks for
FlagOf(kind) ==
    CASE kind \in {"SendMessage", "EditMessage"} -> "SEND_MESSAGES"
      [] kind = "ChangeUsername" -> "CHANGE_USERNAME"
      [] kind = "ChangeDisplayName" -> "CHANGE_DISPLAY_NAME"
      [] kind = "CreateCommunity" -> "CREATE_COMMUNITIES"
      [] kind = "JoinCommunity" -> "JOIN_COMMUNITIES"
      [] kind = "CreateRoom" -> "CREATE_ROOMS"
      [] kind = "CreateInvite" -> "CREATE_INVITES"

NoFlaggedRequest == [kind |-> "None", valid |-> FALSE, joined |-> FALSE, response |-> "None"]

PermsInit ==
    /\ pm_perms \in SUBSET AllPermissionFlags
    /\ pm_bucket \in 0..RATELIMIT_BURST_PER_MIN
    /\ pm_store = 0
    /\ pm_session = 0
    /\ pm_community = 0
    /\ pm_handled = 0
    /\ pm_last = NoFlaggedRequest

\* the variables of SpecPerms at rest, for the other specifications
PermsIdle ==
    /\ pm_perms = {}
    /\ pm_bucket = 0
    /\ pm_store = 0
    /\ pm_session = 0
    /\ pm_community = 0
    /\ pm_handled = 0
    /\ pm_last = NoFlaggedRequest

\* a request of the session: the permission check of its handler, the
\* rate-limit token, then the rest of the handler
FlaggedRequest(kind, valid, joined) ==
    /\ pm_handled < MaxPermRequests
    /\ pm_handled' = pm_handled + 1
    /\ LET out == flagged_request(kind, pm_perms, valid, joined)
           limited == out.response # "AccessDenied" /\ pm_bucket = 0
           spent == IF out.response = "AccessDenied" \/ limited THEN 0 ELSE 1
       IN  /\ pm_bucket' = pm_bucket - spent
           /\ pm_store' = pm_store + (IF limited THEN 0 ELSE out.store)
           /\ pm_session' = pm_session + (IF limited THEN 0 ELSE out.session)
           /\ pm_community' = pm_community + (IF limited THEN 0 ELSE out.community)
           /\ pm_last' = [kind |-> kind, valid |-> valid, joined |-> joined,
                          response |-> IF limited THEN "RateLimited" ELSE out.response]
    /\ UNCHANGED pm_perms
    /\ UNCHANGED notPermsVars

PermsNext ==
    \E kind \in FlaggedRequests, valid \in BOOLEAN, joined \in BOOLEAN :
        FlaggedRequest(kind, valid, joined)

(***************************************************************************)
(* SpecJoin: RequestHandler::join_community_by_id and create_community,    *)
(* with the Join handler of the community actor either as community.rs has *)
(* it (unimplemented) or as the actor that regular_user.rs calls.          *)
(***************************************************************************)
JoinDevices == {"d1", "d2", "d3"}
JoinDeviceUser(d) == IF d = "d3" THEN "u2" ELSE "u1"

\* ServerEvent::AddCommunity(community)
AddCommunityEvent(c) == [event |-> "AddCommunity", community |-> c]

\* the actor's Join: the membership row is inserted if it is absent
actor_join(members, user, c) ==
    IF <<user, c>> \in members
    THEN [result |-> "AlreadyInCommunity", members |-> members]
    ELSE [result |-> "Ok", members |-> members \cup {<<user, c>>}]

\* a mutant of add_community_targets: the requesting device is not left out
add_community_targets_all(status, user, device) ==
    {x \in JoinDevices : JoinDeviceUser(x) = user /\ status[x] = "Active"}

\* user.sessions, without self.device, as_active_actor
add_community_targets(status, user, device) ==
    {x \in JoinDevices : JoinDeviceUser(x) = user /\ x # device /\ status[x] = "Active"}

JoinOutcome(response, members, cached, events, stopped) ==
    [response |-> response, members |-> members, cached |-> cached,
     events |-> events, stopped |-> stopped]

\* join_community_by_id(id) on the session of device; load_fails: the
\* outcome of UserCommunity::load
join_community_by_id(registry, device, c, load_fails) ==
    LET user == JoinDeviceUser(device)
        joined == actor_join(jn_members, user, c)
        same(response) == JoinOutcome(response, jn_members, jn_cached, jn_events, jn_stopped)
    IN  IF c \notin registry THEN same("InvalidCommunity")
        ELSE IF c \in jn_stopped THEN same(handle_disconnected("Community"))
        ELSE IF jn_handler = "unimplemented"
        THEN JoinOutcome(handle_disconnected("Community"), jn_members, jn_cached,
                         jn_events, jn_stopped \cup {c})
        ELSE IF joined.result = "AlreadyInCommunity" THEN same("AlreadyInCommunity")
        ELSE IF load_fails
        THEN JoinOutcome(FromDatabaseError("sql"), joined.members, jn_cached,
                         jn_events, jn_stopped)
        ELSE JoinOutcome("AddCommunity", joined.members, jn_cached \cup {<<user, c>>},
                 [x \in JoinDevices |->
                     IF x \in add_community_targets(jn_status, user, device)
                     THEN Append(jn_events[x], AddCommunityEvent(c))
                     ELSE jn_events[x]],
                 jn_stopped)

NoJoinRequest ==
    [op |-> "None", device |-> "none", community |-> "none", member |-> FALSE,
     response |-> "None"]

JoinInit ==
    /\ jn_handler \in {"unimplemented", "specified"}
    /\ jn_registry = {"c1"}
    /\ jn_stopped = {}
    /\ jn_members \in SUBSET (Users \X {"c1"})
    /\ jn_cached = jn_members
    /\ jn_status \in [JoinDevices -> {"Active", "Inserting"}]
    /\ jn_events = [d \in JoinDevices |-> <<>>]
    /\ jn_handled = 0
    /\ jn_last = NoJoinRequest

\* the variables of SpecJoin at rest, for the other specifications
JoinIdle ==
    /\ jn_handler = "none"
    /\ jn_registry = {}
    /\ jn_stopped = {}
    /\ jn_members = {}
    /\ jn_cached = {}
    /\ jn_status = [d \in JoinDevices |-> "Inserting"]
    /\ jn_events = [d \in JoinDevices |-> <<>>]
    /\ jn_handled = 0
    /\ jn_last = NoJoinRequest

\* what a request leaves behind
JoinApply(op, device, c, out) ==
    /\ jn_handled' = jn_handled + 1
    /\ jn_members' = out.members
    /\ jn_cached' = out.cached
    /\ jn_events' = out.events
    /\ jn_stopped' = out.stopped
    /\ jn_last' = [op |-> op, device |-> device, community |-> c,
                   member |-> <<JoinDeviceUser(device), c>> \in jn_members,
                   response |-> out.response]

\* join_community with an invite code of community c
JoinCommunity(device, c, load_fails) ==
    /\ jn_status[device] = "Active"
    /\ jn_handled < MaxJoinRequests
    /\ JoinApply("JoinCommunity", device, c,
                 join_community_by_id(jn_registry, device, c, load_fails))
    /\ UNCHANGED <<jn_handler, jn_registry, jn_status>>
    /\ UNCHANGED notJoinVars

\* create_community: the store creates community c, its actor is spawned,
\* then join_community_by_id(c)
CreateCommunity(device, c, load_fails) ==
    /\ jn_status[device] = "Active"
    /\ jn_handled < MaxJoinRequests
    /\ c \notin jn_registry
    /\ jn_registry' = jn_registry \cup {c}
    /\ JoinApply("CreateCommunity", device, c,
                 join_community_by_id(jn_registry \cup {c}, device, c, load_fails))
    /\ UNCHANGED <<jn_handler, jn_status>>
    /\ UNCHANGED notJoinVars

\* the session of the device is upgraded, or is closed and logs in again
JoinSessionChange(device) ==
    /\ jn_status' = [jn_status EXCEPT
          ![device] = IF @ = "Active" THEN "Inserting" ELSE "Active"]
    /\ UNCHANGED <<jn_handler, jn_registry, jn_stopped, jn_members, jn_cached,
                   jn_events, jn_handled, jn_last>>
    /\ UNCHANGED notJoinVars

JoinNext ==
    \/ \E device \in JoinDevices, c \in CommunityIds, load_fails \in BOOLEAN :
          JoinCommunity(device, c, load_fails)
    \/ \E device \in JoinDevices, c \in CommunityIds, load_fails \in BOOLEAN :
          CreateCommunity(device, c, load_fails)
    \/ \E device \in JoinDevices : JoinSessionChange(device)

(***************************************************************************)
(* SpecRoom: RequestHandler::create_room from the send to the community    *)
(* actor on, and the actor's CreateRoom.                                   *)
(***************************************************************************)
\* ServerEvent::AddRoom
AddRoomEvent(id) == [event |-> "AddRoom", room |-> id]

NoRoom == 0

\* the actor's CreateRoom{creator, name}: the room is persisted, added to the
\* room set and announced to every online device of every member
actor_create_room(store, actor_rooms, online, events) ==
    LET id == Cardinality(store) + 1
    IN  [id |-> id,
         store |-> store \cup {id},
         rooms |-> actor_rooms \cup {id},
         events |-> [x \in JoinDevices |->
                        IF x \in online THEN Append(events[x], AddRoomEvent(id))
                        ELSE events[x]]]

\* a mutant of create_room_response: the room is answered under another id
create_room_response_stale(id, user, cached, loaded) ==
    IF user \in loaded
    THEN [response |-> "AddRoom", room |-> id - 1, cached |-> cached \cup {<<user, id>>}]
    ELSE [response |-> "InvalidCommunity", room |-> NoRoom, cached |-> cached]

\* create_room after the actor's answer: the room is added to the user's
\* cached community and answered as AddRoom
create_room_response(id, user, cached, loaded) ==
    IF user \in loaded
    THEN [response |-> "AddRoom", room |-> id, cached |-> cached \cup {<<user, id>>}]
    ELSE [response |-> "InvalidCommunity", room |-> NoRoom, cached |-> cached]

NoRoomRequest == [device |-> "none", response |-> "None", room |-> NoRoom]

RoomInit ==
    /\ rm_store = {1}
    /\ rm_rooms = {1}
    /\ rm_online \in SUBSET JoinDevices
    /\ rm_loaded \in SUBSET Users
    /\ rm_cached = rm_loaded \X {1}
    /\ rm_events = [d \in JoinDevices |-> <<>>]
    /\ rm_handled = 0
    /\ rm_last = NoRoomRequest

\* the variables of SpecRoom at rest, for the other specifications
RoomIdle ==
    /\ rm_store = {}
    /\ rm_rooms = {}
    /\ rm_online = {}
    /\ rm_loaded = {}
    /\ rm_cached = {}
    /\ rm_events = [d \in JoinDevices |-> <<>>]
    /\ rm_handled = 0
    /\ rm_last = NoRoomRequest

\* create_room of a session that has the flag and is in the community;
\* connected: whether the actor takes the message
CreateRoomRequest(device, connected) ==
    /\ rm_handled < MaxRoomRequests
    /\ rm_handled' = rm_handled + 1
    /\ IF ~connected
       THEN /\ rm_last' = [device |-> device, response |-> handle_disconnected("Community"),
                           room |-> NoRoom]
            /\ UNCHANGED <<rm_store, rm_rooms, rm_cached, rm_events>>
       ELSE LET made == actor_create_room(rm_store, rm_rooms, rm_online, rm_events)
                out == create_room_response(made.id, JoinDeviceUser(device),
                                            rm_cached, rm_loaded)
            IN  /\ rm_store' = made.store
                /\ rm_rooms' = made.rooms
                /\ rm_events' = made.events
                /\ rm_cached' = out.cached
                /\ rm_last' = [device |-> device, response |-> out.response,
                               room |-> out.room]
    /\ UNCHANGED <<rm_online, rm_loaded>>
    /\ UNCHANGED notRoomVars

\* a device of a member connects to the actor, or its session ends
RoomOnlineChange(device) ==
    /\ rm_online' = IF device \in rm_online THEN rm_online \ {device}
                    ELSE rm_online \cup {device}
    /\ UNCHANGED <<rm_store, rm_rooms, rm_cached, rm_loaded, rm_events, rm_handled, rm_last>>
    /\ UNCHANGED notRoomVars

RoomNext ==
    \/ \E device \in JoinDevices, connected \in BOOLEAN : CreateRoomRequest(device, connected)
    \/ \E device \in JoinDevices : RoomOnlineChange(device)

(***************************************************************************)
(* SpecDeleted: the handlers that can find the session's user missing from *)
(* the store, and ctx.stop().                                              *)
(***************************************************************************)
\* what a handler answers, and whether it called ctx.stop()
Answer(response, stop) == [response |-> response, stop |-> stop]

\* change_username and change_display_name: validation, then the store
deleted_change_name(exists, valid, invalid) ==
    IF ~valid THEN Answer(invalid, FALSE)
    ELSE IF exists THEN Answer("NoData", FALSE)
    ELSE Answer("UserDeleted", TRUE)

\* change_password up to verify_password: valid_password, get_user_by_id,
\* verify_user
verify_password(exists, valid, correct) ==
    IF ~valid THEN Answer("InvalidPassword", FALSE)
    ELSE IF ~exists THEN Answer("InvalidUser", FALSE)
    ELSE IF ~correct THEN Answer("IncorrectUsernameOrPassword", FALSE)
    ELSE Answer("Verified", FALSE)

\* the match on the store's answer in change_password, create_community and
\* set_as_read: the user's row is missing -> ctx.stop(), UserDeleted
deleted_store_result(exists, ok) ==
    IF exists THEN Answer(ok, FALSE) ELSE Answer("UserDeleted", TRUE)

\* set_as_read: the cached room, then the store
deleted_set_as_read(exists, valid) ==
    IF ~valid THEN Answer("InvalidRoom", FALSE)
    ELSE deleted_store_result(exists, "NoData")

DeletedKinds ==
    {"ChangeUsername", "ChangeDisplayName", "CreateCommunity", "SetAsRead"}

deleted_request(kind, exists, valid) ==
    CASE kind = "ChangeUsername" -> deleted_change_name(exists, valid, "InvalidUsername")
      [] kind = "ChangeDisplayName" -> deleted_change_name(exists, valid, "InvalidDisplayName")
      [] kind = "CreateCommunity" -> deleted_store_result(exists, "AddCommunity")
      [] kind = "SetAsRead" -> deleted_set_as_read(exists, valid)

NoDeletedRequest == [kind |-> "None", valid |-> FALSE, response |-> "None"]

DeletedInit ==
    /\ ud_exists = TRUE
    /\ ud_running = TRUE
    /\ ud_socket = TRUE
    /\ ud_pc = "idle"
    /\ ud_handled = 0
    /\ ud_last = NoDeletedRequest

\* the variables of SpecDeleted at rest, for the other specifications
DeletedIdle ==
    /\ ud_exists = FALSE
    /\ ud_running = FALSE
    /\ ud_socket = FALSE
    /\ ud_pc = "idle"
    /\ ud_handled = 0
    /\ ud_last = NoDeletedRequest

\* the response is written; a session that called ctx.stop() stops and its
\* socket closes
DeletedAnswer(kind, valid, out) ==
    /\ ud_handled' = ud_handled + 1
    /\ ud_last' = [kind |-> kind, valid |-> valid, response |-> out.response]
    /\ ud_running' = ~out.stop
    /\ ud_socket' = ~out.stop

\* the user's row leaves the store, or a user of that id is there again
DeletedUserChange ==
    /\ ud_exists' = ~ud_exists
    /\ UNCHANGED <<ud_running, ud_socket, ud_pc, ud_handled, ud_last>>
    /\ UNCHANGED notDeletedVars

DeletedRequest(kind, valid) ==
    /\ ud_running /\ ud_pc = "idle"
    /\ ud_handled < MaxDeletedRequests
    /\ DeletedAnswer(kind, valid, deleted_request(kind, ud_exists, valid))
    /\ UNCHANGED <<ud_exists, ud_pc>>
    /\ UNCHANGED notDeletedVars

\* change_password up to and including verify_password
ChangePasswordVerify(valid, correct) ==
    /\ ud_running /\ ud_pc = "idle"
    /\ ud_handled < MaxDeletedRequests
    /\ LET out == verify_password(ud_exists, valid, correct)
       IN  IF out.response = "Verified"
           THEN /\ ud_pc' = "verified"
                /\ UNCHANGED <<ud_running, ud_socket, ud_handled, ud_last>>
           ELSE /\ DeletedAnswer("ChangePassword", valid /\ correct, out)
                /\ UNCHANGED ud_pc
    /\ UNCHANGED ud_exists
    /\ UNCHANGED notDeletedVars

\* change_password from database.change_password on
ChangePasswordStore ==
    /\ ud_running /\ ud_pc = "verified"
    /\ ud_pc' = "idle"
    /\ DeletedAnswer("ChangePassword", TRUE, deleted_store_result(ud_exists, "NoData"))
    /\ UNCHANGED ud_exists
    /\ UNCHANGED notDeletedVars

DeletedNext ==
    \/ DeletedUserChange
    \/ \E kind \in DeletedKinds, valid \in BOOLEAN : DeletedRequest(kind, valid)
    \/ \E valid \in BOOLEAN, correct \in BOOLEAN : ChangePasswordVerify(valid, correct)
    \/ ChangePasswordStore

(***************************************************************************)
(* SpecRegistry: load_communities at boot and                              *)
(* RequestHandler::create_community, over the table communities and the    *)
(* registry COMMUNITIES.                                                   *)
(***************************************************************************)
\* the store call of create_community that fails, if any
StoreFaults == {"none", "create_community", "room_states"}

\* Handler<CreateCommunity> for DatabaseServer: INSERT INTO communities
\* under a new id
db_create_community(store) == Cardinality(store) + 1

\* CommunityActor::create_and_spawn and load_and_spawn: the actor is put in
\* COMMUNITIES under the id of its community
create_and_spawn(registry, id) == registry \cup {id}

CreateOutcome(response, store, registry, stop) ==
    [response |-> response, store |-> store, registry |-> registry, stop |-> stop]

\* create_community: has_perms, db.create_community(name)?,
\* create_default_user_room_states_for_user(id, user)?, and the match on
\* its result; joined is the response of join_community_by_id(id)
create_community(store, registry, allowed, exists, fault, joined) ==
    LET id == db_create_community(store)
        created == store \cup {id}
    IN  IF ~allowed THEN CreateOutcome("AccessDenied", store, registry, FALSE)
        ELSE IF fault = "create_community"
        THEN CreateOutcome(FromDatabaseError("sql"), store, registry, FALSE)
        ELSE IF fault = "room_states"
        THEN CreateOutcome(FromDatabaseError("sql"), created, registry, FALSE)
        ELSE IF ~exists
        THEN CreateOutcome("UserDeleted", created, registry, TRUE)
        ELSE CreateOutcome(joined, created, create_and_spawn(registry, id), FALSE)

NoRegistryRequest == [allowed |-> FALSE, fault |-> "none", response |-> "None"]

RegistryInit ==
    /\ rg_store \in {{}, {1}}
    /\ rg_registry = {}
    /\ rg_booted = FALSE
    /\ rg_exists = TRUE
    /\ rg_running = TRUE
    /\ rg_handled = 0
    /\ rg_last = NoRegistryRequest

\* the variables of SpecRegistry at rest, for the other specifications
RegistryIdle ==
    /\ rg_store = {}
    /\ rg_registry = {}
    /\ rg_booted = FALSE
    /\ rg_exists = FALSE
    /\ rg_running = FALSE
    /\ rg_handled = 0
    /\ rg_last = NoRegistryRequest

\* load_communities: load_and_spawn for every row of get_all_communities;
\* main awaits it before it serves
LoadCommunities ==
    /\ ~rg_booted
    /\ rg_booted' = TRUE
    /\ rg_registry' = rg_store
    /\ UNCHANGED <<rg_store, rg_exists, rg_running, rg_handled, rg_last>>
    /\ UNCHANGED notRegistryVars

\* the row of the session's user leaves the store
RegistryUserDeleted ==
    /\ rg_booted
    /\ rg_exists
    /\ rg_exists' = FALSE
    /\ UNCHANGED <<rg_store, rg_registry, rg_booted, rg_running, rg_handled, rg_last>>
    /\ UNCHANGED notRegistryVars

\* ClientRequest::CreateCommunity on the session
CreateCommunityRequest(allowed, fault, joined) ==
    /\ rg_booted
    /\ rg_running
    /\ rg_handled < MaxRegistryRequests
    /\ Cardinality(rg_store) < MaxCommunities
    /\ LET out == create_community(rg_store, rg_registry, allowed, rg_exists,
                                   fault, joined)
       IN  /\ rg_store' = out.store
           /\ rg_registry' = out.registry
           /\ rg_running' = ~out.stop
           /\ rg_last' = [allowed |-> allowed, fault |-> fault,
                          response |-> out.response]
    /\ rg_handled' = rg_handled + 1
    /\ UNCHANGED <<rg_booted, rg_exists>>
    /\ UNCHANGED notRegistryVars

RegistryNext ==
    \/ LoadCommunities
    \/ RegistryUserDeleted
    \/ \E allowed \in BOOLEAN, fault \in StoreFaults,
          joined \in {"AddCommunity", "Internal"} :
          CreateCommunityRequest(allowed, fault, joined)

Init == SessionInit /\ FanoutIdle /\ UpdateIdle /\ ProfileIdle /\ RateIdle /\ RequestIdle /\ TokenIdle /\ AdminIdle /\ DispatchIdle /\ FaultIdle /\ PermsIdle /\ JoinIdle /\ RoomIdle /\ DeletedIdle /\ RegistryIdle

Next == SessionNext

Spec == Init /\ [][Next]_vars

InitFanout == FanoutInit /\ SessionIdle /\ UpdateIdle /\ ProfileIdle /\ RateIdle /\ RequestIdle /\ TokenIdle /\ AdminIdle /\ DispatchIdle /\ FaultIdle /\ PermsIdle /\ JoinIdle /\ RoomIdle /\ DeletedIdle /\ RegistryIdle

SpecFanout == InitFanout /\ [][FanoutNext]_vars

InitRoomUpdate == UpdateInit /\ SessionIdle /\ FanoutIdle /\ ProfileIdle /\ RateIdle /\ RequestIdle /\ TokenIdle /\ AdminIdle /\ DispatchIdle /\ FaultIdle /\ PermsIdle /\ JoinIdle /\ RoomIdle /\ DeletedIdle /\ RegistryIdle

SpecRoomUpdate == InitRoomUpdate /\ [][UpdateNext]_vars

InitProfile == ProfileInit /\ SessionIdle /\ FanoutIdle /\ UpdateIdle /\ RateIdle /\ RequestIdle /\ TokenIdle /\ AdminIdle /\ DispatchIdle /\ FaultIdle /\ PermsIdle /\ JoinIdle /\ RoomIdle /\ DeletedIdle /\ RegistryIdle

SpecProfile == InitProfile /\ [][ProfileNext]_vars

InitRate == RateInit /\ SessionIdle /\ FanoutIdle /\ UpdateIdle /\ ProfileIdle /\ RequestIdle /\ TokenIdle /\ AdminIdle /\ DispatchIdle /\ FaultIdle /\ PermsIdle /\ JoinIdle /\ RoomIdle /\ DeletedIdle /\ RegistryIdle

SpecRate == InitRate /\ [][RateNext]_vars

InitRequest == RequestInit /\ SessionIdle /\ FanoutIdle /\ UpdateIdle /\ ProfileIdle /\ RateIdle /\ TokenIdle /\ AdminIdle /\ DispatchIdle /\ FaultIdle /\ PermsIdle /\ JoinIdle /\ RoomIdle /\ DeletedIdle /\ RegistryIdle

SpecRequest == InitRequest /\ [][RequestNext]_vars

InitToken == TokenInit /\ SessionIdle /\ FanoutIdle /\ UpdateIdle /\ ProfileIdle /\ RateIdle /\ RequestIdle /\ AdminIdle /\ DispatchIdle /\ FaultIdle /\ PermsIdle /\ JoinIdle /\ RoomIdle /\ DeletedIdle /\ RegistryIdle

SpecToken == InitToken /\ [][TokenNext]_vars

InitAdmin == AdminInit /\ SessionIdle /\ FanoutIdle /\ UpdateIdle /\ ProfileIdle /\ RateIdle /\ RequestIdle /\ TokenIdle /\ DispatchIdle /\ FaultIdle /\ PermsIdle /\ JoinIdle /\ RoomIdle /\ DeletedIdle /\ RegistryIdle

SpecAdmin == InitAdmin /\ [][AdminNext]_vars

InitDispatch == DispatchInit /\ SessionIdle /\ FanoutIdle /\ UpdateIdle /\ ProfileIdle /\ RateIdle /\ RequestIdle /\ TokenIdle /\ AdminIdle /\ FaultIdle /\ PermsIdle /\ JoinIdle /\ RoomIdle /\ DeletedIdle /\ RegistryIdle

SpecDispatch == InitDispatch /\ [][DispatchNext]_vars

InitFault == FaultInit /\ SessionIdle /\ FanoutIdle /\ UpdateIdle /\ ProfileIdle /\ RateIdle /\ RequestIdle /\ TokenIdle /\ AdminIdle /\ DispatchIdle /\ PermsIdle /\ JoinIdle /\ RoomIdle /\ DeletedIdle /\ RegistryIdle

SpecFault == InitFault /\ [][FaultNext]_vars

InitPerms == PermsInit /\ SessionIdle /\ FanoutIdle /\ UpdateIdle /\ ProfileIdle /\ RateIdle /\ RequestIdle /\ TokenIdle /\ AdminIdle /\ DispatchIdle /\ FaultIdle /\ JoinIdle /\ RoomIdle /\ DeletedIdle /\ RegistryIdle

SpecPerms == InitPerms /\ [][PermsNext]_vars

InitJoin == JoinInit /\ SessionIdle /\ FanoutIdle /\ UpdateIdle /\ ProfileIdle /\ RateIdle /\ RequestIdle /\ TokenIdle /\ AdminIdle /\ DispatchIdle /\ FaultIdle /\ PermsIdle /\ RoomIdle /\ DeletedIdle /\ RegistryIdle

SpecJoin == InitJoin /\ [][JoinNext]_vars

InitRoom == RoomInit /\ SessionIdle /\ FanoutIdle /\ UpdateIdle /\ ProfileIdle /\ RateIdle /\ RequestIdle /\ TokenIdle /\ AdminIdle /\ DispatchIdle /\ FaultIdle /\ PermsIdle /\ JoinIdle /\ DeletedIdle /\ RegistryIdle

SpecRoom == InitRoom /\ [][RoomNext]_vars

InitDeleted == DeletedInit /\ SessionIdle /\ FanoutIdle /\ UpdateIdle /\ ProfileIdle /\ RateIdle /\ RequestIdle /\ TokenIdle /\ AdminIdle /\ DispatchIdle /\ FaultIdle /\ PermsIdle /\ JoinIdle /\ RoomIdle /\ RegistryIdle

SpecDeleted == InitDeleted /\ [][DeletedNext]_vars

InitRegistry == RegistryInit /\ SessionIdle /\ FanoutIdle /\ UpdateIdle /\ ProfileIdle /\ RateIdle /\ RequestIdle /\ TokenIdle /\ AdminIdle /\ DispatchIdle /\ FaultIdle /\ PermsIdle /\ JoinIdle /\ RoomIdle /\ DeletedIdle

SpecRegistry == InitRegistry /\ [][RegistryNext]_vars

(***************************************************************************)
(* Properties of Spec.                                                     *)
(***************************************************************************)
\* a session that is running and has not been told to log out
Live(s) == sessions[s].status = "Running" /\ ~InSeq("SessionLoggedOut", sessions[s].mailbox)

LiveOn(d) == {s \in LoginIds : sessions[s].device = d /\ Live(s)}

\* C1: under any interleaving of logins, sweeps, logouts and disconnects a
\* device has at most one live session, and that session is the one its
\* Active slot in the session manager holds; an Active slot holds a running
\* session of that device.
C1_AtMostOneActivePerDevice ==
    \A d \in Devices :
       /\ Cardinality(LiveOn(d)) <= 1
       /\ \A s \in LiveOn(d) : slots[d] = ActiveSlot(s)
       /\ slots[d].kind = "Active" =>
             /\ sessions[slots[d].session].status = "Running"
             /\ sessions[slots[d].session].device = d

\* C1 witness: a device whose first session was logged out by the sweep and
\* whose second session is now the Active one
C1_Witness ==
    \E d \in Devices : \E s1, s2 \in LoginIds :
       /\ s1 # s2
       /\ sessions[s1].device = d /\ sessions[s1].logged_out
       /\ slots[d] = ActiveSlot(s2) /\ Live(s2)

\* the step of login l that calls session::insert while its device's slot
\* holds an Active session
InsertOnActive(l) ==
    /\ logins[l].pc = "authenticated"
    /\ logins'[l].pc # "authenticated"
    /\ slots[logins[l].device].kind = "Active"

SweepStarts == sweep_pc = "wait" /\ sweep_pc' = "notify"
SweepEnds == sweep_pc = "notify" /\ sweep_pc' = "wait"

\* the expiration_date of a token has passed
ExpirationPassed(tok, t) == tok.expiration_date # NoDate /\ tok.expiration_date < t

\* a returned row's session was sent SessionLoggedOut and is no longer the
\* device's Active session, or it had stopped already
TornDown(r) ==
    /\ slots[r.device] # ActiveSlot(r.session)
    /\ \/ sessions[r.session].status = "Closed"
       \/ InSeq("SessionLoggedOut", sessions[r.session].mailbox)

\* C8: a sweep deletes every token whose expiration_date has passed or whose
\* last use lies more than token_expiry_days days back, and when the sweep
\* cycle ends every session that was Active on a deleted token has been
\* removed from its slot and sent SessionLoggedOut (or had stopped by itself).
C8_SweepSafety ==
    [][/\ SweepStarts =>
             \A d \in Devices :
                (/\ login_tokens[d].present
                 /\ \/ ExpirationPassed(login_tokens[d], now)
                    \/ now - login_tokens[d].last_used > token_expiry_days * TicksPerDay)
                => ~login_tokens'[d].present
       /\ SweepEnds =>
             \A r \in sweep_deleted : r.session # NoSession => TornDown(r)]_vars

\* C9: the sweep deletes a token exactly when its expiration_date has passed
\* or NOW - last_used is more than token_expiry_days days; with
\* token_expiry_days = 0 a session whose token was used before NOW loses the
\* token at the next sweep and is sent SessionLoggedOut in that cycle.
C9_ExpiryWindowExact ==
    [][/\ SweepStarts =>
             \A d \in Devices : login_tokens[d].present =>
                (~login_tokens'[d].present <=>
                    \/ ExpirationPassed(login_tokens[d], now)
                    \/ now - login_tokens[d].last_used > token_expiry_days * TicksPerDay)
       /\ (SweepEnds /\ token_expiry_days = 0) =>
             \A r \in sweep_deleted :
                (r.session # NoSession /\ sessions[r.session].status = "Running")
                => InSeq("SessionLoggedOut", sessions[r.session].mailbox)]_vars

(***************************************************************************)
(* Properties of SpecFanout.                                               *)
(***************************************************************************)
\* the places of session e's inbox that hold the event of message k
EventsOf(e, k) == {i \in 1..Len(inbox[e]) : inbox[e][i].msg = k}

\* the sessions the sender of message k must not hear from: those of its
\* device (CommunityActor), the sending session itself (ClientServer)
SenderSide(k) ==
    IF actor = "community"
    THEN {e \in Endpoints : EndpointDevice(e) = handled[k].device}
    ELSE {handled[k].from}

\* C3: the event of a handled message is never delivered to the device
\* that sent it, and it is delivered to every other device that was online
\* with the actor for a member when the message was handled.
C3_FanoutExclusion ==
    \A k \in 1..Len(handled) :
       /\ \A e \in SenderSide(k) : EventsOf(e, k) = {}
       /\ \A e \in handled[k].expected : EventsOf(e, k) # {}

\* C4: every event a device has received is of a message that is in the
\* store, under the id the sender was given in its confirmation.
C4_PersistedBeforeFanout ==
    \A e \in Endpoints : \A i \in 1..Len(inbox[e]) :
       \E row \in messages :
          /\ row.msg = inbox[e][i].msg
          /\ row.id = handled[inbox[e][i].msg].id

\* C5: the ids the community actor gives out grow in the order in which it
\* handles the messages, and every session receives the events in that order.
C5_IdsFollowHandlingOrder ==
    actor = "community" =>
       /\ \A i, j \in 1..Len(handled) : (handled[i].id < handled[j].id) <=> (i < j)
       /\ \A e \in Endpoints : \A i, j \in 1..Len(inbox[e]) :
             i < j => inbox[e][i].msg <= inbox[e][j].msg

\* C6: a device receives the event of a message at most once, whatever
\* Connect, Join and reconnect operations came before.
C6_AtMostOncePerDevice ==
    \A k \in 1..Len(handled) : \A d \in {EndpointDevice(e) : e \in Endpoints} :
       Cardinality({p \in Endpoints \X (1..(MaxMessages * MaxConnects * MaxConnects)) :
                       EndpointDevice(p[1]) = d /\ p[2] \in EventsOf(p[1], k)}) <= 1

(***************************************************************************)
(* Properties of SpecRoomUpdate.                                           *)
(***************************************************************************)
\* C7: a RoomUpdate response has continuous = TRUE exactly when it holds
\* fewer messages than the message_count that was asked for, for every
\* count from 0 on and every content of the room.
C7_ContinuousIffFewerThanCount ==
    update_response.kind = "RoomUpdate" =>
       (update_response.continuous <=>
           Len(update_response.new_messages) < update_request.message_count)

\* C7 witness: a RoomUpdate for message_count = 0 on a room that holds
\* messages: it returns none of them and is not continuous
C7_Witness ==
    /\ update_response.kind = "RoomUpdate"
    /\ update_request.message_count = 0
    /\ room_log # <<>>
    /\ update_response.new_messages = <<>>
    /\ ~update_response.continuous

(***************************************************************************)
(* Properties of SpecProfile.                                              *)
(***************************************************************************)
\* the step is a successful change_username or change_display_name of u
ChangedProfile(u) ==
    /\ changes' = changes + 1
    /\ last_change'.op \in {"change_username", "change_display_name"}
    /\ last_change'.user = u
    /\ last_change'.result = "Ok"

\* C10: a successful change of username or display_name adds exactly 1 to
\* the profile_version of its user, no step makes the profile_version of a
\* user smaller, and the column stays within 0..IntMax, where the u32 that
\* UserRecord reads from it is the same number.
C10_ProfileVersionIncrements ==
    [][\A u \in Users :
          /\ ChangedProfile(u) =>
                /\ users[u].profile_version < IntMax
                /\ users'[u].profile_version - 1 = users[u].profile_version
          /\ (users[u].present /\ users'[u].present) =>
                users'[u].profile_version >= users[u].profile_version
          /\ users'[u].profile_version >= 0 /\ users'[u].profile_version <= IntMax]_vars

\* C10 witness: a user whose profile_version has reached the largest INTEGER
\* through a successful change, and whose next change the database refused
C10_Witness ==
    \E u \in Users :
       /\ users[u].present
       /\ users[u].profile_version = IntMax
       /\ last_change.user = u
       /\ last_change.result = "DatabaseError"


(***************************************************************************)
(* Properties of SpecRate.                                                 *)
(***************************************************************************)
\* the requests of device d that were handled, made at a time in t0..t1
\* under the limiter of rebuild number b
HandledIn(d, b, t0, t1) ==
    {i \in 1..Len(rate_log) :
        /\ rate_log[i].device = d /\ rate_log[i].rebuilds = b
        /\ rate_log[i].response = "Handled"
        /\ rate_log[i].time >= t0 /\ rate_log[i].time <= t1}

\* the requests of device d that were handled, made at a time in t0..t1
HandledAll(d, t0, t1) ==
    {i \in 1..Len(rate_log) :
        /\ rate_log[i].device = d
        /\ rate_log[i].response = "Handled"
        /\ rate_log[i].time >= t0 /\ rate_log[i].time <= t1}

\* C11: a device has at most RATELIMIT_BURST_PER_MIN requests handled plus
\* one for every refill time that passed; a request is answered RateLimited
\* only when that many were handled already, and only the handled requests
\* reach the store.
C11_RateLimitedWhenExhausted ==
    /\ \A d \in Devices :
          \A t0 \in 0..MaxRateTime : \A t1 \in t0..MaxRateTime :
             Cardinality(HandledAll(d, t0, t1)) <= RATELIMIT_BURST_PER_MIN + (t1 - t0)
    /\ \A i \in 1..Len(rate_log) :
          rate_log[i].response = "RateLimited" =>
             \E t0 \in 0..rate_log[i].time :
                Cardinality({j \in HandledAll(rate_log[i].device, t0, rate_log[i].time) :
                                j < i})
                   = RATELIMIT_BURST_PER_MIN + (rate_log[i].time - t0)
    /\ store_calls = Cardinality({i \in 1..Len(rate_log) : rate_log[i].response = "Handled"})

\* C11 witness: a device used its burst and its next request, in the same
\* minute, was answered RateLimited without reaching the store
C11_Witness ==
    \E i \in 1..Len(rate_log) :
       /\ rate_log[i].response = "RateLimited"
       /\ i = Len(rate_log)
       /\ store_calls = RATELIMIT_BURST_PER_MIN
       /\ \A j \in 1..(i - 1) : rate_log[j].device = rate_log[i].device

\* C11 as stated: a device never has more than RATELIMIT_BURST_PER_MIN
\* requests handled within one minute.
C11_BurstPerMinute ==
    \A d \in Devices : \A t0 \in 0..MaxRateTime :
       Cardinality({i \in 1..Len(rate_log) :
                      /\ rate_log[i].device = d
                      /\ rate_log[i].response = "Handled"
                      /\ rate_log[i].time >= t0
                      /\ rate_log[i].time < t0 + RATELIMIT_BURST_PER_MIN})
          <= RATELIMIT_BURST_PER_MIN


\* the request the session has just handled
LastRequest == req_log'[Len(req_log')]

\* the request just handled is addressed to a community that the session has
\* not joined or that has no actor in the registry
ToInvalidCommunity ==
    /\ req_log' # req_log
    /\ LastRequest.session = "self"
    /\ \/ ~in_community(LastRequest.community)
       \/ LastRequest.community \notin COMMUNITIES

\* C12: a SendMessage, EditMessage, CreateRoom or CreateInvite addressed to a
\* community that the session has not joined, or that has no actor in the
\* registry, sends nothing to any actor and changes neither the store nor the
\* active-user table; it returns InvalidCommunity when the token carries the
\* permission of the request, and AccessDenied when it does not.
C12_InvalidCommunityNoEffect ==
    [][ToInvalidCommunity =>
          /\ UNCHANGED <<actor_mail, invite_codes, user_communities>>
          /\ LastRequest.response =
               IF has_perms(RequiredFlag(LastRequest.kind))
                   THEN "InvalidCommunity" ELSE "AccessDenied"]_vars

\* C12 witness: each of the four requests was refused with InvalidCommunity
\* for a community outside the session's or outside the registry, and nothing
\* was sent or stored
C12_Witness ==
    /\ \E i \in 1..Len(req_log) :
          /\ req_log[i].response = "InvalidCommunity"
          /\ ~in_community(req_log[i].community)
          /\ req_log[i].kind = "SendMessage"
    /\ \E i \in 1..Len(req_log) :
          /\ req_log[i].response = "InvalidCommunity"
          /\ in_community(req_log[i].community)
          /\ req_log[i].community \notin COMMUNITIES
          /\ req_log[i].kind = "CreateInvite"
    /\ actor_mail = <<>>
    /\ \A c \in CommunityIds : invite_codes[c] = 0

\* C12 as stated: such a request always returns InvalidCommunity
C12_AlwaysInvalidCommunity ==
    [][ToInvalidCommunity =>
          /\ UNCHANGED <<actor_mail, invite_codes, user_communities>>
          /\ LastRequest.response = "InvalidCommunity"]_vars


\* the account of u can be used: it is neither locked nor banned
InGoodStanding(u) == ~tk_users[u].locked /\ ~tk_users[u].banned

\* the operation just made is create_token with the credentials that were
\* last set for the account
CreatesWithCredentials ==
    /\ tk_last'.op = "create_token"
    /\ tk_last' # tk_last \/ tk_tokens' # tk_tokens
    /\ tk_last'.secret = tk_credentials[tk_last'.account]

\* the step is an authentication with the pair (d, t) that create_token
\* returned, and the row of d is still in the table
AuthenticatesIssued(d) ==
    /\ tk_last'.op = "authenticate"
    /\ tk_last'.device = d
    /\ tk_issued[d].issued
    /\ tk_last'.secret = tk_issued[d].secret
    /\ tk_last' # tk_last \/ tk_tokens' # tk_tokens

Inserts(l) == logins[l].pc = "authenticated" /\ logins'[l].pc # "authenticated"

\* C14: insert claims the slot of the device only if it is empty or Logout;
\* on a slot that is Active or Inserting the login returns TokenInUse, the
\* slot and the sessions stay as they are, and the refused login never gets
\* a session.
C14_InsertRejectsHeldSlot ==
    [][\A l \in LoginIds :
          /\ Inserts(l) =>
                LET d == logins[l].device
                IN  IF slots[d].kind \in {"Empty", "Logout"}
                    THEN /\ slots'[d] = InsertingSlot
                         /\ logins'[l].pc = "inserted"
                    ELSE /\ slots' = slots
                         /\ sessions' = sessions
                         /\ logins'[l].pc = "done"
                         /\ logins'[l].result = "TokenInUse"
          /\ logins[l].result = "TokenInUse" =>
                /\ sessions'[l] = NoSessionRec
                /\ logins'[l] = logins[l]]_vars

\* C14 witness: the second of two logins of one device was refused while the
\* first was between insert and upgrade, and the first then got its session
C14_Witness ==
    \E l, k \in LoginIds :
       /\ l # k
       /\ logins[l].found = "Inserting" /\ logins[l].result = "TokenInUse"
       /\ sessions[l] = NoSessionRec
       /\ logins[k].device = logins[l].device
       /\ logins[k].result = "Upgraded"
       /\ slots[logins[l].device] = ActiveSlot(k)


\* the answers of /client/authenticate when Authenticator::login fails
AuthenticationErrors == {"InvalidToken", "TokenExpired"}

\* login l leaves its first await, the call of Authenticator::login
Authenticates(l) == logins[l].pc = "idle" /\ logins'[l].pc # "idle"

\* C19: a login whose authentication fails (no row for the device, or a
\* token that is expired) is answered with AuthResponse::Err, and takes no
\* slot and creates no session, then or later.
C19_FailedAuthenticationLeavesNoTrace ==
    [][\A l \in LoginIds :
          /\ Authenticates(l) =>
                LET tok == login_tokens[logins'[l].device]
                IN  /\ (~tok.present \/ TokenStale(tok, now, token_expiry_days))
                          => (logins'[l].pc = "done"
                                /\ logins'[l].result \in AuthenticationErrors)
                    /\ slots' = slots
                    /\ sessions' = sessions
          /\ logins[l].result \in AuthenticationErrors =>
                /\ logins'[l] = logins[l]
                /\ sessions'[l] = NoSessionRec
                /\ \A d \in Devices : slots'[d] # ActiveSlot(l)]_vars

\* C19 witness: a login with an expired token was answered TokenExpired; it
\* has no session and the slot of its device is empty
C19_Witness ==
    \E l \in LoginIds :
       /\ logins[l].result = "TokenExpired"
       /\ sessions[l] = NoSessionRec
       /\ slots[logins[l].device] = EmptySlot
       /\ login_tokens[logins[l].device].present


\* the step is a successful change_password made by the session of device d
PasswordChanged(d) ==
    /\ tk_last'.op = "change_password"
    /\ tk_last'.device = d
    /\ tk_last'.result = "NoData"
    /\ tk_last' # tk_last \/ tk_users' # tk_users

\* C15: after a successful change_password of user U the password hash is
\* the hash of the new password, compromised is false, and every other token
\* of U is gone from login_tokens and its session is logged out.
C15_PasswordChangeInvalidatesTokens ==
    [][\A d \in Devices : PasswordChanged(d) =>
          LET u == tk_tokens[d].user
          IN  /\ tk_users'[u].password_hash = Hash(tk_last'.secret)
              /\ ~tk_users'[u].compromised
              /\ \A e \in Devices \ {d} :
                    tk_tokens[e].present /\ tk_tokens[e].user = u
                       => /\ authenticate(tk_tokens', tk_users', e, tk_issued[e].secret,
                                          tk_now') # "Ok"
                          /\ e \notin tk_sessions']_vars


\* the step adds a CreateInvite for community c to the log
CreatesInvite(c) ==
    /\ req_log' # req_log
    /\ LastRequest.kind = "CreateInvite"
    /\ LastRequest.community = c

C18_AddAdminGrantsAll ==
    [][adm_runs' # adm_runs =>
          LET add == adm_last'.add
              remove == adm_last'.remove
          IN  /\ (add \in adm_users /\ remove = NoArgument)
                    => get_admin_permissions(administrators', add) = ALL
              /\ (remove \in adm_users /\ add = NoArgument)
                    => get_admin_permissions(administrators', remove) = NoFlags
              /\ (add = UnknownName \/ (add = NoArgument /\ remove = UnknownName))
                    => /\ adm_last'.outcome = "panic: Invalid username"
                       /\ administrators' = administrators]_vars


\* the responses written with request id r
ResponsesTo(r) == {i \in 1..Len(ds_outbox) : ds_outbox[i].request_id = r}

\* C20: every request that the open session has handled, whatever its
\* variant, has exactly one response in the outbox, and that response
\* carries the request's id.
C20_EveryRequestAnsweredOnce ==
    \A i \in 1..Len(ds_handled) : Cardinality(ResponsesTo(ds_handled[i])) = 1


\* C21: a request that meets a store error or a disconnected actor is
\* answered Internal, the session stays open, and the session's state is as
\* it was before the request.
C21_FaultLeavesSessionAsBefore ==
    [][(ft_requests' # ft_requests /\ ft_last'.fault # NoFault) =>
          /\ ft_last'.response = "Internal"
          /\ ft_open'
          /\ ft_unread' = ft_unread]_vars

\* C22: the events of the actor reach each device in the order in which the
\* actor emitted them, whatever the interleaving of the senders.
C22_PerDeviceEmissionOrder ==
    \A e \in Endpoints : \A i, j \in 1..Len(inbox[e]) :
        i < j => inbox[e][i].msg <= inbox[e][j].msg

\* a device holds events of two messages that came from two senders
C22_Witness ==
    \E e \in Endpoints : \E i, j \in 1..Len(inbox[e]) :
        /\ i < j
        /\ inbox[e][i].msg < inbox[e][j].msg
        /\ inbox[e][i].device # inbox[e][j].device

\* the step answers a get_room_update that names a last_received with a RoomUpdate
AnswersUpdateAfter ==
    /\ <<update_request, update_response>>' # <<update_request, update_response>>
    /\ update_response'.kind = "RoomUpdate"
    /\ update_request'.last_received # NoMessage

\* a message of the room that is newer than last_received is not in the batch
MissingFromBatch(log, request, response) ==
    \E i \in 1..Len(log) :
        /\ log[i] > request.last_received
        /\ ~InSeq(log[i], response.new_messages)

\* C23 as stated: continuous is TRUE exactly when no message of the room newer
\* than last_received is missing from the returned batch.
C23_ContinuousIffNothingMissing ==
    [][AnswersUpdateAfter =>
          (update_response'.continuous <=>
              ~MissingFromBatch(room_log, update_request', update_response'))]_vars

\* C23 amended: continuous = TRUE implies that no message newer than
\* last_received is missing from the batch; continuous = FALSE says only that
\* the batch holds message_count messages, whether or not one is missing.
C23_ContinuousImpliesNothingMissing ==
    [][AnswersUpdateAfter =>
          /\ update_response'.continuous =>
                ~MissingFromBatch(room_log, update_request', update_response')
          /\ ~update_response'.continuous =>
                Len(update_response'.new_messages) = update_request'.message_count]_vars

\* a batch of exactly message_count messages that reaches the newest message
\* of the room and is reported as not continuous
C23_Witness ==
    /\ update_response.kind = "RoomUpdate"
    /\ update_request.last_received # NoMessage
    /\ update_request.message_count > 0
    /\ Len(update_response.new_messages) = update_request.message_count
    /\ ~MissingFromBatch(room_log, update_request, update_response)
    /\ ~update_response.continuous

\* the step answers a get_room_update with a RoomUpdate
AnswersUpdate ==
    /\ <<update_request, update_response>>' # <<update_request, update_response>>
    /\ update_response'.kind = "RoomUpdate"

\* the messages of the room that are newer than id, oldest first
NewerThan(log, id) == SelectSeq(log, LAMBDA m : m > id)

\* C24: with a last_received X the batch holds only messages of the room
\* strictly after X, at most message_count of them: all of them and
\* continuous when message_count is larger than their number, message_count of
\* them and not continuous when it is smaller. Without a last_received the
\* batch is the last message_count messages of the room (fewer when the room
\* holds fewer), the newest included; with neither a last_received nor a
\* message in the room it is empty.
C24_UpdateSelection ==
    [][AnswersUpdate =>
          LET X == update_request'.last_received
              count == update_request'.message_count
              batch == update_response'.new_messages
              after == NewerThan(room_log, X)
              n == Min(count, Len(room_log))
          IN  /\ Len(batch) <= count
              /\ X # NoMessage =>
                    /\ \A i \in 1..Len(batch) : batch[i] > X /\ InSeq(batch[i], room_log)
                    /\ count > Len(after) =>
                          batch = Reverse(after) /\ update_response'.continuous
                    /\ count < Len(after) =>
                          Len(batch) = count /\ ~update_response'.continuous
              /\ (X = NoMessage /\ room_log # <<>>) =>
                    batch = Reverse(SubSeq(room_log, Len(room_log) - n + 1, Len(room_log)))
              /\ (X = NoMessage /\ room_log = <<>>) => batch = <<>>]_vars

\* a room of three messages answered from the first one on: both later
\* messages, continuous
C24_Witness ==
    /\ Len(room_log) = 3
    /\ update_request.last_received = room_log[1]
    /\ update_request.message_count = 3
    /\ update_response.kind = "RoomUpdate"
    /\ update_response.new_messages = <<room_log[3], room_log[2]>>
    /\ update_response.continuous


C26_BestEffortFanout ==
    [][handled' # handled =>
          /\ ~crashed'
          /\ \A e \in handled'[Len(handled')].expected :
                \E i \in 1..Len(inbox'[e]) : inbox'[e][i].msg = Len(handled')]_vars

\* C27: Connect is idempotent on (user, device): whatever Connects were
\* handled, a device is listed once in online_members[user].devices.
C27_ConnectIdempotent ==
    \A u \in Users : \A i, j \in 1..Len(online_members[u]) :
        online_members[u][i].device = online_members[u][j].device => i = j


C29_JoinByMemberRefused ==
    [][(jn_handled' # jn_handled /\ jn_last'.op = "JoinCommunity" /\ jn_last'.member) =>
          /\ jn_last'.response = "AlreadyInCommunity"
          /\ UNCHANGED <<jn_members, jn_cached, jn_events>>]_vars


\* C30: a CreateRoom that is answered AddRoom has persisted a new room, has
\* added it to the actor's room set, has sent AddRoom of it to every online
\* device of every member and to no other device, and its response carries
\* the id of that room.
C30_CreateRoomPersistsAndAnnounces ==
    [][(rm_handled' # rm_handled /\ rm_last'.response = "AddRoom") =>
          LET id == rm_last'.room
          IN  /\ id \notin rm_store /\ rm_store' = rm_store \cup {id}
              /\ id \notin rm_rooms /\ rm_rooms' = rm_rooms \cup {id}
              /\ \A x \in JoinDevices :
                    rm_events'[x] = IF x \in rm_online
                                    THEN Append(rm_events[x], AddRoomEvent(id))
                                    ELSE rm_events[x]]_vars

\* d1 has created room 2 while d1 and d3 were online and d2 was not
C30_Witness ==
    /\ rm_last = [device |-> "d1", response |-> "AddRoom", room |-> 2]
    /\ rm_online = {"d1", "d3"}
    /\ rm_events = [d \in JoinDevices |->
                       IF d = "d2" THEN <<>> ELSE <<AddRoomEvent(2)>>]
    /\ rm_store = {1, 2}
    /\ rm_rooms = {1, 2}


\* C31: a ChangeUsername, ChangeDisplayName, ChangePassword, CreateCommunity
\* or SetAsRead request with acceptable arguments that finds the session's
\* user missing from the store is answered UserDeleted, and the session is
\* stopped and its socket closed, so that it handles no further request.
C31_UserDeletedStopsSession ==
    [][(ud_handled' # ud_handled /\ ~ud_exists /\ ud_last'.valid) =>
          /\ ud_last'.response = "UserDeleted"
          /\ ~ud_running'
          /\ ~ud_socket']_vars

\* C32: after a rebuild of the limiter the sessions acquire from the new
\* instance, on which the counts of every device start afresh: a request is
\* answered RateLimited only when the device has used up its cells since the
\* last rebuild.
C32_RebuildResetsCounts ==
    \A i \in 1..Len(rate_log) :
       rate_log[i].response = "RateLimited" =>
          \E t0 \in 0..rate_log[i].time :
             Cardinality({j \in HandledIn(rate_log[i].device, rate_log[i].rebuilds,
                                           t0, rate_log[i].time) : j < i})
                = RATELIMIT_BURST_PER_MIN + (rate_log[i].time - t0)

\* C33: a login whose claimed slot was taken by remove_and_notify between
\* its insert and its socket upgrade is never installed: its upgrade is
\* refused, its socket is dropped, and the slot of its device does not hold
\* its session.
C33_RemovedSlotNotUpgraded ==
    \A l \in LoginIds :
        logins[l].removed /\ logins[l].pc = "done" =>
            /\ logins[l].result = "Dropped"
            /\ sessions[l].status = "Closed"
            /\ slots[logins[l].device] # ActiveSlot(l)

\* the step of the sweep that calls remove_and_notify for device d
RemoveAndNotifyStep(d) ==
    /\ sweep_pc = "notify"
    /\ d \in sweep_pending
    /\ d \notin sweep_pending'

\* the step of login l that calls session::insert while its device's slot
\* is Logout
InsertOnLogout(l) ==
    /\ logins[l].pc = "authenticated"
    /\ logins'[l].pc # "authenticated"
    /\ slots[logins[l].device].kind = "Logout"

\* C34: remove_and_notify(user, device) leaves the slot of the device Logout;
\* the session that was Active in it is sent one SessionLoggedOut and is in
\* no slot afterwards; every other session is sent nothing, so a slot that
\* was not Active causes no event. An insert that finds the slot Logout
\* claims it.
C34_RemoveAndNotify ==
    [][ /\ \A d \in Devices : RemoveAndNotifyStep(d) =>
              /\ slots'[d] = LogoutSlot
              /\ \A s \in LoginIds :
                    /\ Count(sessions'[s].mailbox, "SessionLoggedOut")
                          = Count(sessions[s].mailbox, "SessionLoggedOut")
                            + (IF slots[d] = ActiveSlot(s) THEN 1 ELSE 0)
                    /\ slots[d] = ActiveSlot(s) =>
                          \A e \in Devices : slots'[e] # ActiveSlot(s)
        /\ \A l \in LoginIds : InsertOnLogout(l) =>
              /\ logins'[l].pc = "inserted"
              /\ slots'[logins[l].device] = InsertingSlot
      ]_vars

\* C34 witness: the session of a device was Active when the sweep removed
\* it and has written SessionLoggedOut to its socket; a later login of the
\* device has claimed the Logout slot and waits for its upgrade
C34_Witness ==
    \E s, l \in LoginIds :
       /\ s # l
       /\ sessions[s].logged_out
       /\ logins[l].device = sessions[s].device
       /\ logins[l].pc = "inserted"
       /\ logins[l].found = "Logout"
       /\ slots[logins[l].device] = InsertingSlot

\* the step in which session s answers a LogOut request
LogOutStep(s) ==
    /\ sessions[s].status = "Running"
    /\ sessions'[s].response # sessions[s].response

\* the step in which session s handles LogoutThisSession
LogoutThisSessionStep(s) ==
    /\ sessions[s].status = "Running"
    /\ sessions[s].mailbox # <<>>
    /\ Head(sessions[s].mailbox) = "LogoutThisSession"
    /\ sessions'[s].mailbox = <<>>

\* the step in which login l passes the authentication of (device, token)
AuthenticatesStep(l) ==
    /\ logins[l].pc = "idle"
    /\ logins'[l].pc = "authenticated"

\* C35: a LogOut of a session whose device has a token row deletes the row,
\* is answered NoData and tells the session to close; handling that, the
\* session closes and is in no slot of the manager; no login authenticates
\* for a device whose session was answered NoData. A LogOut of a session
\* whose device has no token row is answered DeviceDoesNotExist, and the
\* session goes on running in its slot and is not told to close.
C35_LogOutRevokesAndCloses ==
    [][ /\ \A s \in LoginIds : LogOutStep(s) =>
              LET d == sessions[s].device IN
              IF login_tokens[d].present
              THEN /\ sessions'[s].response = "NoData"
                   /\ ~login_tokens'[d].present
                   /\ sessions'[s].mailbox = <<"LogoutThisSession">>
              ELSE /\ sessions'[s].response = "DeviceDoesNotExist"
                   /\ sessions'[s].status = "Running"
                   /\ sessions'[s].mailbox = sessions[s].mailbox
                   /\ slots' = slots
        /\ \A s \in LoginIds : LogoutThisSessionStep(s) =>
              /\ sessions'[s].status = "Closed"
              /\ \A e \in Devices : slots'[e] # ActiveSlot(s)
        /\ \A l \in LoginIds : AuthenticatesStep(l) =>
              \A s \in LoginIds :
                 sessions[s].device = logins'[l].device =>
                    sessions[s].response # "NoData"
      ]_vars

\* C35 witness: one session was answered NoData, has closed and has left its
\* slot; another session, whose token the sweep has deleted, was answered
\* DeviceDoesNotExist and is running in its slot
C35_Witness ==
    \E s, r \in LoginIds :
       /\ sessions[s].response = "NoData"
       /\ sessions[s].status = "Closed"
       /\ slots[sessions[s].device] = EmptySlot
       /\ sessions[r].response = "DeviceDoesNotExist"
       /\ sessions[r].status = "Running"
       /\ slots[sessions[r].device] = ActiveSlot(r)


\* C36: once load_communities has finished, and after every CreateCommunity
\* request has returned, whatever its response, every community that has a
\* row in the store has a CommunityActor in COMMUNITIES.
C36_EveryCommunityHasActor ==
    rg_booted => rg_store \subseteq rg_registry

\* the step of a register (op = "create_user") or ChangeUsername
\* (op = "change_username") whose name is the username of another user
ConflictingStep(op) ==
    /\ changes' # changes
    /\ last_change'.op = op
    /\ username_taken(users, last_change'.user, last_change'.name)

\* no two users have the same username
UsernamesUnique ==
    \A x, y \in Users :
        (x # y /\ users[x].present /\ users[y].present) =>
            users[x].username # users[y].username

C38_FailedCreateRoomCreatesNothing ==
    [][(rm_handled' # rm_handled /\ rm_last'.response # "AddRoom") =>
          /\ rm_store' = rm_store
          /\ rm_rooms' = rm_rooms]_vars


\* C39: a SetAsRead that is answered with an error leaves the cached unread
\* flag of every room as it was, and a room whose cached flag a SetAsRead
\* has cleared is read in the store.
C39_CacheClearedOnlyWithStore ==
    [][(ft_requests' # ft_requests /\ ft_last'.kind = "SetAsRead") =>
          /\ ft_last'.response # "NoData" => ft_unread' = ft_unread
          /\ \A room \in FaultRooms :
                (ft_unread[room] /\ ~ft_unread'[room]) => ~ft_store_unread'[room]]_vars


\* C40: in the ClientServer, after any sequence of Connect and Disconnect,
\* every session id listed in user_to_sessions is a key of sessions; a
\* session that has disconnected is a key of neither.
C40_UserSessionsAreSessions ==
    actor = "server" =>
        /\ \A u \in Users : \A i \in 1..Len(user_to_sessions[u]) :
              user_to_sessions[u][i] \in cs_sessions
        /\ \A e \in Endpoints \ alive :
              /\ e \notin cs_sessions
              /\ \A u \in Users : ~InSeq(e, user_to_sessions[u])

====
